---- MODULE Spec2Model ----
(***************************************************************************)
(* A model of the Pebble-backed double-hashed index store of ipni/dhstore: *)
(* the value-keys merge operator, the section framing of value-keys        *)
(* values, multihash validation, and the MergeIndexes / DeleteIndexes /    *)
(* Lookup / Flush operations of PebbleDHStore over a log-structured        *)
(* backend that keeps, per key, a run of SET / MERGE / DELETE entries and  *)
(* folds MERGE entries newest-first through the merge operator; the        *)
(* metadata operations, Close and reopening; and the same calls running    *)
(* concurrently, each split at its backend reads and its commit; the      *)
(* scratch-buffer pools; and the HTTP server's handlers over the store,    *)
(* with its dhfind request.                                                *)
(***************************************************************************)
EXTENDS Integers, Sequences, FiniteSets, Bags, TLC

VARIABLES
    db,     \* backend contents: key -> [sst, mem], each a run of entries, oldest first
    ret,    \* what the last store call returned: [op, err, val]
    hist,   \* history (ghost): multihash -> the (op, evk) pairs committed for it, in order
    ops,    \* merge-operator harness: operands of one key, oldest first
    chron,  \* merge-operator harness (ghost): the EVKs written, in write order
    vm,     \* merge-operator harness: the live valueKeysValueMerger, or NoMerger
    trav,   \* merge-operator harness (ghost): how the operands were folded so far
    closed, \* PebbleDHStore.closed; Close sets it right after closing the backend
    mhist,  \* history (ghost): the metadata writes that returned, in order
    calls,  \* concurrent calls: goroutine -> the call it is in and how far it is
    snap,   \* concurrent calls (ghost): the database when the first of them began
    codec,  \* section-framing harness: the slices, the buffer and what was decoded
    scratch, \* scratch pools: the pooled buffers and what each goroutine has leased
    find    \* a dhfind request: the handler, the FindAsync goroutine, their channels

\* the state of the harnesses that run beside the store
aside == <<codec, scratch, find>>

vars == <<db, ret, hist, ops, chron, vm, trav, closed, mhist, calls, snap, aside>>

\* what the sequential index operations and the merge-operator harness leave alone
others == <<closed, mhist, calls, snap, aside>>

-----------------------------------------------------------------------------
(* Bounds *)

\* number of (multihash, evk) pairs committed over a behaviour of Spec
MaxOps == 4
\* number of pairs committed over a behaviour of SpecValid
MaxOpsValid == 2
\* number of pairs in one MergeIndexes / DeleteIndexes call
MaxBatch == 2
\* number of operands written in the merge-operator harness
MaxOperands == 3
\* number of Finish calls in the merge-operator harness
MaxPasses == 3
\* number of metadata writes over a behaviour of SpecMeta
MaxMetaOps == 3
\* number of (multihash, evk) pairs committed over a behaviour of SpecStore
MaxOpsStore == 1
\* number of metadata writes over a behaviour of SpecStore
MaxMetaStore == 1
\* number of (multihash, evk) pairs committed over a behaviour of SpecClose
MaxOpsClose == 3
\* number of metadata writes over a behaviour of SpecClose
MaxMetaClose == 1
\* number of goroutines calling the store at the same time
MaxProcs == 2
\* number of pairs committed before the concurrent calls of SpecConc begin
MaxSetup == 3
\* number of pairs committed before the concurrent merges of SpecConcMerge begin
MaxSetupMerge == 1
\* number of (multihash, evk) pairs committed over a behaviour of SpecSize
MaxOpsSize == 1
\* number of metadata writes over a behaviour of SpecSize
MaxMetaSize == 1
\* number of byte slices framed into one buffer in the section-framing harness
MaxSlices == 3
MaxOpsLong == 1
MaxOpsCorrupt == 3
MaxCut == 4
MaxPooled == 1
\* pairs committed and metadata writes over a behaviour of SpecHttp
MaxOpsHttp == 2
MaxMetaHttp == 1
\* pairs merged before the concurrent Close calls of SpecConcClose
MaxSetupClose == 2
\* results FindAsync sends for one request
MaxResults == 3

-----------------------------------------------------------------------------
(* Byte strings *)

\* The multicodec codes go-multihash reports for the test multihashes.
DBL_SHA2_256 == 86
SHA2_256 == 18

Bytes32(b) == [i \in 1..32 |-> b]

\* multihash.Sum(_, DBL_SHA2_256, -1): code, length 32, 32 digest bytes.
MhFish == <<DBL_SHA2_256, 32>> \o Bytes32(1)
\* A well-formed DBL_SHA2_256 multihash whose digest is 4 bytes long.
MhShort == <<DBL_SHA2_256, 4, 7, 7, 7, 7>>
\* multihash.Sum("fish", SHA2_256, -1)
MhSha256 == <<SHA2_256, 32>> \o Bytes32(3)
\* multihash.Multihash("lobster"): not a multihash at all.
MhLobster == <<108, 111, 98, 115, 116, 101, 114>>

\* The multihashes of the validation tests.
MhsValid == {MhFish, MhShort, MhSha256, MhLobster}

\* Hashed value keys and encrypted metadata: opaque byte strings.
HvkA == <<11>>
HvkB == <<12, 13>>
HVKs == {HvkA, HvkB}
EmA == <<201>>
EmB == <<202, 203>>
EMs == {EmA, EmB}

\* blake3 with a 32-byte digest, on the hashed value keys used here: a table
\* of distinct digests.  The digest of HvkA is one that reads as a
\* DBL_SHA2_256 multihash with a 30-byte digest, so that a multihash and a
\* hashed value key with the same bytes after the key prefix both occur.
blake3Sum(hvk) ==
    IF hvk = HvkA THEN <<DBL_SHA2_256, 30>> \o [i \in 1..30 |-> 9]
    ELSE Bytes32(hvk[1])

\* the multihash with the bytes of blake3Sum(HvkA)
MhDigest == blake3Sum(HvkA)

\* A DBL_SHA2_256 multihash that sorts before MhFish.
MhCrab == <<DBL_SHA2_256, 32>> \o Bytes32(0)

Mhs == MhsValid \cup {MhDigest, MhCrab}

\* Encrypted value keys: opaque byte strings of different lengths.
EvkA == <<101>>
EvkB == <<102>>
EvkC == <<103, 104>>
EVKs == {EvkA, EvkB, EvkC}

\* The largest encrypted value key and metadata the stores of the
\* repository mean to take: 100 KB.
maxValueBytes == 100000

\* payloads of exactly the limit and of one byte more
EvkMax == [i \in 1..maxValueBytes |-> 105]
EvkBig == [i \in 1..(maxValueBytes + 1) |-> 106]
EmMax == [i \in 1..maxValueBytes |-> 205]
EmBig == [i \in 1..(maxValueBytes + 1) |-> 206]

Nil == <<>>

RECURSIVE bytesCompare(_, _)
\* bytes.Compare: -1, 0, 1 by lexicographic order
bytesCompare(a, b) ==
    IF Len(a) = 0 /\ Len(b) = 0 THEN 0
    ELSE IF Len(a) = 0 THEN -1
    ELSE IF Len(b) = 0 THEN 1
    ELSE IF a[1] < b[1] THEN -1
    ELSE IF a[1] > b[1] THEN 1
    ELSE bytesCompare(Tail(a), Tail(b))

Reverse(s) == [i \in 1..Len(s) |-> s[Len(s) + 1 - i]]

-----------------------------------------------------------------------------
(* Multihash validation *)

\* multihash.Decode for multihashes whose code and length varints are one
\* byte each (every byte used here is below 128).
Decode(buf) ==
    IF Len(buf) < 2
    THEN [err |-> "ErrTooShort", Code |-> 0, Length |-> 0]
    ELSE IF buf[2] > Len(buf) - 2
    THEN [err |-> "ErrInvalidMultihash", Code |-> 0, Length |-> 0]
    ELSE IF Len(buf) # 2 + buf[2]
    THEN [err |-> "ErrInconsistentLen", Code |-> 0, Length |-> 0]
    ELSE [err |-> "nil", Code |-> buf[1], Length |-> buf[2]]

\* checkMultihash without its comparison of the code with DBL_SHA2_256
checkMultihashAnyCode(mh) ==
    IF Decode(mh).err # "nil" THEN "ErrMultihashDecode" ELSE "nil"

\* The check at the head of every loop iteration of MergeIndexes and
\* DeleteIndexes and at the head of Lookup.
checkMultihash(mh) ==
    LET dmh == Decode(mh) IN
    IF dmh.err # "nil" THEN "ErrMultihashDecode"
    ELSE IF dmh.Code # DBL_SHA2_256 THEN "ErrUnsupportedMulticodecCode"
    ELSE "nil"

-----------------------------------------------------------------------------
(* Key schema *)

multihashKeyPrefix == 1

\* unknownKeyPrefix, the zero of the iota, which no key carries
unknownKeyPrefix == 0

\* multihashKey writing the unknown prefix
multihashKeyUnknownPrefix(mh) == <<unknownKeyPrefix>> \o mh

\* blake3Keyer.multihashKey: the prefix byte, then the multihash as given
multihashKey(mh) == <<multihashKeyPrefix>> \o mh

\* hashedValueKeyKey with the prefix of the multihash keys
hashedValueKeyKeySamePrefix(hvk) == <<multihashKeyPrefix>> \o blake3Sum(hvk)

hashedValueKeyKeyPrefix == 2

\* blake3Keyer.hashedValueKeyKey: hasher.Sum appends the digest to the prefix
hashedValueKeyKey(hvk) == <<hashedValueKeyKeyPrefix>> \o blake3Sum(hvk)

DBKeys == {multihashKey(mh) : mh \in Mhs} \cup {hashedValueKeyKey(hvk) : hvk \in HVKs}

-----------------------------------------------------------------------------
(* Section framing *)

RECURSIVE PutUvarint(_)
\* the unsigned varint of x: seven bits a byte, low bits first, the high bit
\* set on every byte but the last
PutUvarint(x) ==
    IF x < 128 THEN <<x>>
    ELSE <<128 + (x % 128)>> \o PutUvarint(x \div 128)

RECURSIVE Uvarint(_)
\* the varint at the head of buf: the bytes it takes (0 when buf ends inside
\* it or its last byte is a padding zero) and its value
Uvarint(buf) ==
    IF Len(buf) = 0 THEN [n |-> 0, x |-> 0]
    ELSE IF buf[1] < 128 THEN [n |-> 1, x |-> buf[1]]
    ELSE LET more(r) == IF r.n = 0 \/ (r.n = 1 /\ r.x = 0) THEN [n |-> 0, x |-> 0]
                        ELSE [n |-> r.n + 1, x |-> (buf[1] - 128) + 128 * r.x]
         IN more(Uvarint(Tail(buf)))

\* sectionBuffer.writeSection: varint(len) then the bytes
writeSection(buf, b) == buf \o PutUvarint(Len(b)) \o b

\* sectionBuffer.copyNextSection on the bytes that remain.
copyNextSection(rest) ==
    LET section(v) ==
            IF v.n = 0 \/ v.x > Len(rest) - v.n
            THEN [err |-> "ErrUnexpectedEOF", section |-> Nil, rest |-> rest]
            ELSE [err |-> "nil",
                  section |-> SubSeq(rest, v.n + 1, v.n + v.x),
                  rest |-> SubSeq(rest, v.n + v.x + 1, Len(rest))]
    IN section(Uvarint(rest))

marshalEncryptedIndexKey(evk) == writeSection(<<>>, evk)

RECURSIVE marshalEncryptedIndexKeys(_)
marshalEncryptedIndexKeys(evks) ==
    IF Len(evks) = 0 THEN <<>>
    ELSE writeSection(<<>>, Head(evks)) \o marshalEncryptedIndexKeys(Tail(evks))

RECURSIVE unmarshalLoopKeepsPrefix(_, _)
\* the loop of unmarshalEncryptedIndexKeys returning, with the error, the
\* slices it had already copied
unmarshalLoopKeepsPrefix(rest, evks) ==
    IF Len(rest) = 0 THEN [err |-> "nil", evks |-> evks]
    ELSE LET next == copyNextSection(rest) IN
         IF next.err # "nil" THEN [err |-> next.err, evks |-> evks]
         ELSE unmarshalLoopKeepsPrefix(next.rest, Append(evks, next.section))

RECURSIVE unmarshalLoop(_, _)
unmarshalLoop(rest, evks) ==
    IF Len(rest) = 0 THEN [err |-> "nil", evks |-> evks]
    ELSE LET next == copyNextSection(rest) IN
         IF next.err # "nil" THEN [err |-> next.err, evks |-> Nil]
         ELSE unmarshalLoop(next.rest, Append(evks, next.section))

unmarshalEncryptedIndexKeys(b) ==
    IF Len(b) = 0 THEN [err |-> "nil", evks |-> Nil]
    ELSE unmarshalLoop(b, <<>>)

-----------------------------------------------------------------------------
(* Value-keys merge operator *)

NoMerger == [merges |-> <<>>, reverse |-> FALSE, err |-> "none", lo |-> 0, hi |-> 0]

\* exists comparing slice identity instead of bytes: never equal
existsNever(merges, value) == FALSE

\* valueKeysValueMerger.exists: linear scan by bytes.Equal
exists(merges, value) == \E i \in 1..Len(merges) : merges[i] = value

RECURSIVE appendMissing(_, _)
\* the else-branch loop of MergeNewer: append every evk not yet present
appendMissing(merges, evks) ==
    IF Len(evks) = 0 THEN merges
    ELSE appendMissing(IF exists(merges, Head(evks)) THEN merges
                       ELSE Append(merges, Head(evks)),
                       Tail(evks))

\* MergeNewer appending every EVK of value, present or not
MergeNewerAppendsAll(v, value) ==
    IF Len(value) = 0 THEN v
    ELSE LET r == unmarshalEncryptedIndexKeys(value) IN
         IF r.err # "nil" THEN [v EXCEPT !.err = r.err]
         ELSE [v EXCEPT !.merges = v.merges \o r.evks]

\* valueKeysValueMerger.MergeNewer (marshalledSizeHint only sizes a buffer
\* and is left out)
MergeNewer(v, value) ==
    IF Len(value) = 0 THEN v
    ELSE LET r == unmarshalEncryptedIndexKeys(value) IN
         IF r.err # "nil" THEN [v EXCEPT !.err = r.err]
         ELSE IF Len(v.merges) = 0
         THEN [v EXCEPT !.merges = v.merges \o r.evks]
         ELSE [v EXCEPT !.merges = appendMissing(v.merges, r.evks)]

\* MergeOlder without setting reverse
MergeOlderKeepsOrder(v, value) == MergeNewer(v, value)

\* valueKeysValueMerger.MergeOlder
MergeOlder(v, value) == MergeNewer([v EXCEPT !.reverse = TRUE], value)

\* valueKeysValueMerger.marshalMerges
marshalMerges(merges) == marshalEncryptedIndexKeys(merges)

\* valueKeysValueMerger.Finish: the bytes it returns
Finish(v) ==
    IF Len(v.merges) = 0 THEN Nil
    ELSE marshalMerges(IF v.reverse THEN Reverse(v.merges) ELSE v.merges)

\* valueKeysValueMerger.DeletableFinish
DeletableFinish(v) == [b |-> Finish(v), delete |-> Len(Finish(v)) = 0]

\* newValueKeysMerger: the merger the backend is given for an operand of key k
newValueKeysMerger(k) ==
    IF k[1] = multihashKeyPrefix THEN "valueKeysValueMerger" ELSE "pebble.DefaultMerger"

\* The Merge hook of newValueKeysMerger for a key with the multihash prefix:
\* a fresh merger that has taken value through MergeNewer.
Merge(k, value) ==
    MergeNewer([merges |-> <<>>, reverse |-> FALSE, err |-> "nil", lo |-> 0, hi |-> 0],
               value)

-----------------------------------------------------------------------------
(* The backend: runs of entries per key, folded newest-first *)

Entry(kind, value) == [kind |-> kind, value |-> value]

RECURSIVE mergeNext(_, _, _)
\* Fold the entries of run below position i, newest first, into merger v,
\* the way the backend's iterators do: a MERGE entry is an older operand; a
\* SET entry is the base value and ends the fold; a DELETE ends the fold.
mergeNext(v, run, i) ==
    IF i = 0 THEN [v |-> v, kind |-> "MERGE"]
    ELSE IF run[i].kind = "DEL" THEN [v |-> v, kind |-> "SET"]
    ELSE IF run[i].kind = "SET" THEN [v |-> MergeOlder(v, run[i].value), kind |-> "SET"]
    ELSE mergeNext(MergeOlder(v, run[i].value), run, i - 1)

\* The entries a non-empty run folds to (at most one).
foldRun(k, run) ==
    LET newest == run[Len(run)]
        entry(kind, fin) == IF fin.delete THEN <<>> ELSE <<Entry(kind, fin.b)>>
        finish(f) == entry(f.kind, DeletableFinish(f.v))
    IN IF newest.kind # "MERGE" THEN <<newest>>
       ELSE finish(mergeNext(Merge(k, newest.value), run, Len(run) - 1))

\* db.Get: the value visible at key k, or ErrNotFound
Get(d, k) ==
    LET run == d[k].sst \o d[k].mem
        visible(f) == IF Len(f) = 0 \/ f[1].kind = "DEL"
                      THEN [err |-> "ErrNotFound", value |-> Nil]
                      ELSE [err |-> "nil", value |-> f[1].value]
    IN IF Len(run) = 0 THEN [err |-> "ErrNotFound", value |-> Nil]
       ELSE visible(foldRun(k, run))

RECURSIVE Commit(_, _)
\* batch.Commit: the batch's entries reach the memtable in batch order
Commit(d, batch) ==
    IF Len(batch) = 0 THEN d
    ELSE LET b == Head(batch) IN
         Commit([d EXCEPT ![b.key].mem = Append(@, Entry(b.kind, b.value))],
                Tail(batch))

-----------------------------------------------------------------------------
(* The store *)

Index(mh, evk) == [Key |-> mh, Value |-> evk]

RECURSIVE insertSorted(_, _)
\* one pass of the insertion sort: x moves left past every element whose key
\* compares greater than its own
insertSorted(sorted, x) ==
    IF Len(sorted) = 0 THEN <<x>>
    ELSE IF bytesCompare(x.Key, sorted[Len(sorted)].Key) < 0
    THEN Append(insertSorted(SubSeq(sorted, 1, Len(sorted) - 1), x), sorted[Len(sorted)])
    ELSE Append(sorted, x)

RECURSIVE insertionSortCmpFunc(_)
\* the library's insertion sort, which keeps pairs of equal keys in order
insertionSortCmpFunc(indexes) ==
    IF Len(indexes) = 0 THEN <<>>
    ELSE insertSorted(insertionSortCmpFunc(SubSeq(indexes, 1, Len(indexes) - 1)),
                      indexes[Len(indexes)])

\* the length up to which slices.SortFunc runs the insertion sort
maxInsertion == 12

\* cmp(data[x], data[y]) < 0
less(data, x, y) == bytesCompare(data[x].Key, data[y].Key) < 0

swap(data, x, y) == [data EXCEPT ![x] = data[y], ![y] = data[x]]

\* order2CmpFunc on positions a, b having counted n swaps: <<a, b, n>>
order2(data, a, b, n) == IF less(data, b, a) THEN <<b, a, n + 1>> ELSE <<a, b, n>>

\* choosePivotCmpFunc for 8 to 49 elements: the median of the elements at
\* one, two and three quarters
choosePivot(data) ==
    LET q == Len(data) \div 4
        third(o1, o2) == order2(data, o1[1], o2[1], o2[3])[2]
        second(o1) == third(o1, order2(data, o1[2], 1 + 3 * q, o1[3]))
    IN second(order2(data, 1 + q, 1 + 2 * q, 0))

RECURSIVE scanUp(_, _, _)
\* for i <= j && cmp(data[i], data[a]) < 0 { i++ }, the pivot being at a = 1
scanUp(data, i, j) ==
    IF i <= j /\ less(data, i, 1) THEN scanUp(data, i + 1, j) ELSE i

RECURSIVE scanDown(_, _, _)
\* for i <= j && !(cmp(data[j], data[a]) < 0) { j-- }
scanDown(data, i, j) ==
    IF i <= j /\ ~less(data, j, 1) THEN scanDown(data, i, j - 1) ELSE j

RECURSIVE partitionLoop(_, _, _)
\* the rounds of partitionCmpFunc: both scans, then a swap of the two
\* elements they stopped at, until they cross; then the pivot goes to mid
partitionLoop(data, i, j) ==
    LET down(i2, j2) == IF i2 > j2 THEN [data |-> swap(data, j2, 1), mid |-> j2]
                        ELSE partitionLoop(swap(data, i2, j2), i2 + 1, j2 - 1)
        up(i2) == down(i2, scanDown(data, i2, j))
    IN up(scanUp(data, i, j))

\* partitionCmpFunc: the pivot goes to the front first
partitionCmpFunc(data, pivot) == partitionLoop(swap(data, 1, pivot), 2, Len(data))

\* partialInsertionSortCmpFunc below 50 elements: done if data is sorted
\* already, and nothing is moved otherwise
partialInsertionSort(data) == \A i \in 2..Len(data) : ~less(data, i, i - 1)

RECURSIVE pdqsortCmpFunc(_)
\* pdqsortCmpFunc of the library for up to maxInsertion + 1 elements (both
\* sides of the first partition are then insertion-sorted; the pattern
\* breaking and the heap sort of longer inputs are not reached)
pdqsortCmpFunc(data) ==
    IF Len(data) <= maxInsertion THEN insertionSortCmpFunc(data)
    ELSE IF partialInsertionSort(data) THEN data
    ELSE LET sides(part) ==
                 pdqsortCmpFunc(SubSeq(part.data, 1, part.mid - 1))
                 \o <<part.data[part.mid]>>
                 \o pdqsortCmpFunc(SubSeq(part.data, part.mid + 1, Len(data)))
         IN sides(partitionCmpFunc(data, choosePivot(data)))

\* slices.SortFunc(indexes, bytes.Compare on Key): not a stable sort
sortIndexes(indexes) == pdqsortCmpFunc(indexes)

RECURSIVE mergeLoop(_, _)
\* the loop of MergeIndexes over the sorted indexes: the error it returns
\* early with, or the batch it has built
mergeLoop(indexes, batch) ==
    IF Len(indexes) = 0 THEN [err |-> "nil", batch |-> batch]
    ELSE LET index == Head(indexes)
             e == checkMultihash(index.Key)
         IN IF e # "nil" THEN [err |-> e, batch |-> batch]
            ELSE mergeLoop(Tail(indexes),
                           Append(batch, [kind |-> "MERGE",
                                          key |-> multihashKey(index.Key),
                                          value |-> marshalEncryptedIndexKey(index.Value)]))

\* removeValueKey filling the hole with the last element instead of
\* shifting the tail
removeValueKeySwap(encValueKeys, evk) ==
    IF \E i \in 1..Len(encValueKeys) : encValueKeys[i] = evk
    THEN LET i == CHOOSE i \in 1..Len(encValueKeys) :
                      /\ encValueKeys[i] = evk
                      /\ \A j \in 1..(i - 1) : encValueKeys[j] # evk
             n == Len(encValueKeys)
         IN [removed |-> TRUE,
             keys |-> IF n = 1 THEN Nil
                      ELSE [j \in 1..(n - 1) |-> IF j = i THEN encValueKeys[n]
                                                  ELSE encValueKeys[j]]]
    ELSE [removed |-> FALSE, keys |-> encValueKeys]

\* the removal loop of DeleteIndexes: the first element equal to evk goes,
\* the others keep their order
removeValueKey(encValueKeys, evk) ==
    IF \E i \in 1..Len(encValueKeys) : encValueKeys[i] = evk
    THEN LET i == CHOOSE i \in 1..Len(encValueKeys) :
                      /\ encValueKeys[i] = evk
                      /\ \A j \in 1..(i - 1) : encValueKeys[j] # evk
         IN [removed |-> TRUE,
             keys |-> IF Len(encValueKeys) = 1 THEN Nil
                      ELSE SubSeq(encValueKeys, 1, i - 1)
                           \o SubSeq(encValueKeys, i + 1, Len(encValueKeys))]
    ELSE [removed |-> FALSE, keys |-> encValueKeys]

\* the loop body of DeleteIndexes without its check of removed: the list is
\* written back even when nothing was removed from it
deleteOneAlwaysWrites(d, index, batch) ==
    LET e == checkMultihash(index.Key)
        mhk == multihashKey(index.Key)
        write(rem) ==
            IF Len(rem.keys) = 0
            THEN [err |-> "nil",
                  batch |-> Append(batch, [kind |-> "DEL", key |-> mhk, value |-> Nil])]
            ELSE [err |-> "nil",
                  batch |-> Append(batch, [kind |-> "SET", key |-> mhk,
                                           value |-> marshalEncryptedIndexKeys(rem.keys)])]
        remove(dec) ==
            IF dec.err # "nil" THEN [err |-> dec.err, batch |-> batch]
            ELSE write(removeValueKey(dec.evks, index.Value))
        found(got) ==
            IF got.err = "ErrNotFound" THEN [err |-> "nil", batch |-> batch]
            ELSE remove(unmarshalEncryptedIndexKeys(got.value))
    IN IF e # "nil" THEN [err |-> e, batch |-> batch]
       ELSE found(Get(d, mhk))

\* the loop body of DeleteIndexes writing what remains as a merge operand
\* instead of setting it
deleteOneMergesRest(d, index, batch) ==
    LET e == checkMultihash(index.Key)
        mhk == multihashKey(index.Key)
        write(rem) ==
            IF Len(rem.keys) = 0
            THEN [err |-> "nil",
                  batch |-> Append(batch, [kind |-> "DEL", key |-> mhk, value |-> Nil])]
            ELSE IF ~rem.removed THEN [err |-> "nil", batch |-> batch]
            ELSE [err |-> "nil",
                  batch |-> Append(batch, [kind |-> "MERGE", key |-> mhk,
                                           value |-> marshalEncryptedIndexKeys(rem.keys)])]
        remove(dec) ==
            IF dec.err # "nil" THEN [err |-> dec.err, batch |-> batch]
            ELSE write(removeValueKey(dec.evks, index.Value))
        found(got) ==
            IF got.err = "ErrNotFound" THEN [err |-> "nil", batch |-> batch]
            ELSE remove(unmarshalEncryptedIndexKeys(got.value))
    IN IF e # "nil" THEN [err |-> e, batch |-> batch]
       ELSE found(Get(d, mhk))

\* the loop body of DeleteIndexes writing the emptied list back instead of
\* deleting the key
deleteOneSetsEmpty(d, index, batch) ==
    LET e == checkMultihash(index.Key)
        mhk == multihashKey(index.Key)
        write(rem) ==
            IF ~rem.removed THEN [err |-> "nil", batch |-> batch]
            ELSE [err |-> "nil",
                  batch |-> Append(batch, [kind |-> "SET", key |-> mhk,
                                           value |-> marshalEncryptedIndexKeys(rem.keys)])]
        remove(dec) ==
            IF dec.err # "nil" THEN [err |-> dec.err, batch |-> batch]
            ELSE write(removeValueKey(dec.evks, index.Value))
        found(got) ==
            IF got.err = "ErrNotFound" THEN [err |-> "nil", batch |-> batch]
            ELSE remove(unmarshalEncryptedIndexKeys(got.value))
    IN IF e # "nil" THEN [err |-> e, batch |-> batch]
       ELSE found(Get(d, mhk))

\* one iteration of the loop of DeleteIndexes; s.db.Get reads the database
\* d, which the batch being built has not reached yet
deleteOne(d, index, batch) ==
    LET e == checkMultihash(index.Key)
        mhk == multihashKey(index.Key)
        write(rem) ==
            IF Len(rem.keys) = 0
            THEN [err |-> "nil",
                  batch |-> Append(batch, [kind |-> "DEL", key |-> mhk, value |-> Nil])]
            ELSE IF ~rem.removed THEN [err |-> "nil", batch |-> batch]
            ELSE [err |-> "nil",
                  batch |-> Append(batch, [kind |-> "SET", key |-> mhk,
                                           value |-> marshalEncryptedIndexKeys(rem.keys)])]
        remove(dec) ==
            IF dec.err # "nil" THEN [err |-> dec.err, batch |-> batch]
            ELSE write(removeValueKey(dec.evks, index.Value))
        found(got) ==
            IF got.err = "ErrNotFound" THEN [err |-> "nil", batch |-> batch]
            ELSE remove(unmarshalEncryptedIndexKeys(got.value))
    IN IF e # "nil" THEN [err |-> e, batch |-> batch]
       ELSE found(Get(d, mhk))

RECURSIVE deleteLoopSkipsUndecodable(_, _, _)
\* the loop of DeleteIndexes going on to the next pair when a pair's stored
\* value does not decode
deleteLoopSkipsUndecodable(d, indexes, batch) ==
    IF Len(indexes) = 0 THEN [err |-> "nil", batch |-> batch]
    ELSE LET next(r) ==
                 IF r.err = "ErrUnexpectedEOF"
                 THEN deleteLoopSkipsUndecodable(d, Tail(indexes), batch)
                 ELSE IF r.err # "nil" THEN r
                 ELSE deleteLoopSkipsUndecodable(d, Tail(indexes), r.batch)
         IN next(deleteOne(d, Head(indexes), batch))

RECURSIVE deleteLoop(_, _, _)
\* the loop of DeleteIndexes over the sorted indexes: the error it returns
\* early with, or the batch it has built
deleteLoop(d, indexes, batch) ==
    IF Len(indexes) = 0 THEN [err |-> "nil", batch |-> batch]
    ELSE LET next(r) == IF r.err # "nil" THEN r
                        ELSE deleteLoop(d, Tail(indexes), r.batch)
         IN next(deleteOne(d, Head(indexes), batch))

\* Lookup passing the backend's ErrNotFound on to its caller
lookupNotFoundIsError(d, mh) ==
    LET e == checkMultihash(mh)
        decoded(dec) == [err |-> dec.err, val |-> dec.evks]
        found(got) == IF got.err = "ErrNotFound" THEN [err |-> "ErrNotFound", val |-> Nil]
                      ELSE decoded(unmarshalEncryptedIndexKeys(got.value))
    IN IF e # "nil" THEN [err |-> e, val |-> Nil]
       ELSE found(Get(d, multihashKey(mh)))

\* PebbleDHStore.Lookup as a function of the database: [err, val]
lookup(d, mh) ==
    LET e == checkMultihash(mh)
        decoded(dec) == [err |-> dec.err, val |-> dec.evks]
        found(got) == IF got.err = "ErrNotFound" THEN [err |-> "nil", val |-> Nil]
                      ELSE decoded(unmarshalEncryptedIndexKeys(got.value))
    IN IF e # "nil" THEN [err |-> e, val |-> Nil]
       ELSE found(Get(d, multihashKey(mh)))

RECURSIVE record(_, _, _)
\* history: the pairs of a committed call, appended per multihash
record(h, op, indexes) ==
    IF Len(indexes) = 0 THEN h
    ELSE record([h EXCEPT ![Head(indexes).Key] = Append(@, <<op, Head(indexes).Value>>)],
                op, Tail(indexes))

RECURSIVE SumLen(_, _)
SumLen(h, S) ==
    IF S = {} THEN 0
    ELSE LET x == CHOOSE x \in S : TRUE IN Len(h[x]) + SumLen(h, S \ {x})

Committed == SumLen(hist, Mhs)

Pairs(M, E) == {Index(mh, evk) : mh \in M, evk \in E}

BatchesOf(P, n) == UNION {[1..k -> P] : k \in 1..n}

\* which of MergeOlder / MergeNewer any merger has been given, and how many
\* mergers have finished
NoTraversal == [older |-> FALSE, newer |-> FALSE, passes |-> 0]

\* what db.Get, db.Set, db.Delete, db.Flush and batch.Commit do once the
\* backend is closed: they panic with the backend's closed error
PanicClosed == "panic: pebble: closed"

\* the goroutines of the concurrent calls, numbered in the order they call
Procs == 1..MaxProcs

\* a goroutine's call: where it is (idle, loop, commit, done), the sorted
\* pairs it was given, the pairs its loop has not reached, its batch, and
\* what it returned
Idle == [pc |-> "idle", op |-> "none", all |-> <<>>, indexes |-> <<>>, batch |-> <<>>,
         err |-> "nil"]

EmptyDB == [k \in DBKeys |-> [sst |-> <<>>, mem |-> <<>>]]

-----------------------------------------------------------------------------
(* Scratch buffers.  A call is the sequence of leases, uses and releases *)
(* its code goes through; a buffer is an object with an identity and a   *)
(* capacity.                                                             *)

pooledKeyMaxCap == 32
pooledSectionBufferMaxCap == 1024
pooledSliceCapGrowthFactor == 2

\* the lengths composed: the key of a short multihash, the key of a hashed
\* value key (the prefix and a 32-byte digest), one short section
ShortKey == Len(multihashKey(MhShort))
HashKey == Len(hashedValueKeyKey(HvkA))
ShortValue == Len(marshalEncryptedIndexKeys(<<EvkA>>))

lease(what, n) == <<"lease", what, n>>
use(what) == <<"use", what, 0>>
close(what) == <<"close", what, 0>>

\* the loop body of MergeIndexes: multihashKey, marshalEncryptedIndexKey,
\* batch.Merge, then both Close calls
mergeIndexesPaths(kn, sn) ==
    {<<lease("key", kn), lease("sec", sn), use("key"), use("sec"), close("key"), close("sec")>>}

\* the loop body of DeleteIndexes closing mhk a second time after batch.Set
deleteIndexesPathsCloseTwice(kn, sn) ==
    {<<lease("key", kn), use("key"), close("key")>>,
     <<lease("key", kn), use("key"), use("key"), close("key")>>,
     <<lease("key", kn), use("key"), lease("sec", sn), use("sec"), close("sec"), close("key")>>,
     <<lease("key", kn), use("key"), lease("sec", sn), use("sec"), close("sec"),
       use("key"), close("key")>>,
     <<lease("key", kn), use("key"), lease("sec", sn), use("sec"), close("sec"),
       lease("sec", sn), use("key"), use("sec"), close("sec"), close("key"), close("key")>>}

\* the loop body of DeleteIndexes, one path per way through it: the key is
\* not found; the value is empty and the key is deleted; the value does not
\* decode, or holds no match; the list is emptied and the key is deleted;
\* the shortened list is marshalled and set
deleteIndexesPaths(kn, sn) ==
    {<<lease("key", kn), use("key"), close("key")>>,
     <<lease("key", kn), use("key"), use("key"), close("key")>>,
     <<lease("key", kn), use("key"), lease("sec", sn), use("sec"), close("sec"), close("key")>>,
     <<lease("key", kn), use("key"), lease("sec", sn), use("sec"), close("sec"),
       use("key"), close("key")>>,
     <<lease("key", kn), use("key"), lease("sec", sn), use("sec"), close("sec"),
       lease("sec", sn), use("key"), use("sec"), close("sec"), close("key")>>}

\* Lookup: the key is not found; the value found is decoded
lookupPaths(kn, sn) ==
    {<<lease("key", kn), use("key"), close("key")>>,
     <<lease("key", kn), use("key"), close("key"), lease("sec", sn), use("sec"), close("sec")>>}

\* PutMetadata and GetMetadata: the key is used by one backend call and
\* closed; DeleteMetadata: the key is never closed
metadataPaths(kn) ==
    {<<lease("key", kn), use("key"), close("key")>>,
     <<lease("key", kn), use("key")>>}

\* valueKeysValueMerger: MergeNewer decodes an operand, marshalMerges frames
\* the result, which the backend closes when it has copied it
mergerPaths(sn) ==
    {<<lease("sec", sn), use("sec"), close("sec")>>}

\* the calls; a call of several pairs goes through the loop body once per
\* pair, with handles that are the body's own
Programs ==
    mergeIndexesPaths(ShortKey, ShortValue) \cup deleteIndexesPaths(ShortKey, ShortValue)
    \cup lookupPaths(ShortKey, ShortValue) \cup metadataPaths(HashKey)
    \cup mergerPaths(ShortValue)

NoHandle == [id |-> 0, cap |-> 0, open |-> FALSE]
NoLeases == [prog |-> <<>>, key |-> NoHandle, sec |-> NoHandle]

NoScratch == [key |-> EmptyBag, sec |-> EmptyBag,
              run |-> [p \in Procs |-> NoLeases], bad |-> "none"]

\* pool.New of either pool: a new buffer of the pool's capacity
newBuffer(what, id) ==
    [id |-> id, cap |-> IF what = "key" THEN pooledKeyMaxCap ELSE pooledSectionBufferMaxCap]

\* maybeGrow on an empty buffer: the capacity after making room for n bytes
maybeGrow(cap, n) == IF n <= cap THEN cap ELSE n * pooledSliceCapGrowthFactor

\* sectionBuffer.Close: a section buffer goes back to its pool unless it has
\* grown beyond 1 KiB
sectionBufferClose(cap) == cap <= pooledSectionBufferMaxCap

\* the test of key.Close, and of sectionBuffer.Close: a buffer goes back to
\* its pool unless it has grown beyond the pool's cap
pooledOnClose(what, cap) ==
    IF what = "key" THEN cap <= pooledKeyMaxCap ELSE sectionBufferClose(cap)

\* the section-framing harness before its input is chosen: the slices to
\* frame, the buffer, whether the buffer was cut short, the decoder's result
NoCodec == [pc |-> "input", xs |-> <<>>, buf |-> <<>>, cut |-> FALSE,
            out |-> [err |-> "nil", evks |-> Nil]]

\* no dhfind request yet.  h and f are where the handler and the goroutine it
\* launches are; sent counts the results FindAsync has sent, wrote those the
\* handler has written to the client; answer names the handler's last call.
NoFind == [h |-> "idle", f |-> "idle", resChan |-> "none", errChan |-> <<>>,
           sent |-> 0, wrote |-> 0, haveResults |-> FALSE, ferr |-> "nil",
           err |-> "nil", answer |-> "none"]

Init ==
    /\ db = EmptyDB
    /\ ret = [op |-> "none", err |-> "nil", val |-> Nil]
    /\ hist = [mh \in Mhs |-> <<>>]
    /\ ops = <<>>
    /\ chron = <<>>
    /\ vm = NoMerger
    /\ trav = NoTraversal
    /\ closed = FALSE
    /\ mhist = <<>>
    /\ calls = [p \in Procs |-> Idle]
    /\ snap = EmptyDB
    /\ codec = NoCodec
    /\ scratch = NoScratch
    /\ find = NoFind

\* MergeIndexes committing the batch built so far when it returns early
MergeIndexesCommitsOnError(indexes) ==
    LET r == mergeLoop(sortIndexes(indexes), <<>>) IN
    /\ IF closed
       THEN /\ UNCHANGED <<db, hist>>
            /\ ret' = [op |-> "MergeIndexes", err |-> PanicClosed, val |-> Nil]
       ELSE /\ db' = Commit(db, r.batch)
            /\ hist' = IF r.err # "nil" THEN hist
                       ELSE record(hist, "merge", sortIndexes(indexes))
            /\ ret' = [op |-> "MergeIndexes", err |-> r.err, val |-> Nil]
    /\ UNCHANGED <<ops, chron, vm, trav>>
    /\ UNCHANGED others

\* PebbleDHStore.MergeIndexes: sort, validate and batch every pair, commit.
\* Nothing before batch.Commit touches the backend.
MergeIndexes(indexes) ==
    LET r == mergeLoop(sortIndexes(indexes), <<>>) IN
    /\ IF r.err # "nil"
       THEN /\ UNCHANGED <<db, hist>>
            /\ ret' = [op |-> "MergeIndexes", err |-> r.err, val |-> Nil]
       ELSE IF closed
       THEN /\ UNCHANGED <<db, hist>>
            /\ ret' = [op |-> "MergeIndexes", err |-> PanicClosed, val |-> Nil]
       ELSE /\ db' = Commit(db, r.batch)
            /\ hist' = record(hist, "merge", sortIndexes(indexes))
            /\ ret' = [op |-> "MergeIndexes", err |-> "nil", val |-> Nil]
    /\ UNCHANGED <<ops, chron, vm, trav>>
    /\ UNCHANGED others

\* PebbleDHStore.DeleteIndexes: sort, then per pair validate, read, remove
\* and batch, commit.  The first pair that passes validation reads the
\* backend.
DeleteIndexes(indexes) ==
    LET sorted == sortIndexes(indexes)
        first == IF Len(sorted) = 0 THEN "nil" ELSE checkMultihash(sorted[1].Key)
    IN
    /\ IF closed
       THEN /\ UNCHANGED <<db, hist>>
            /\ ret' = [op |-> "DeleteIndexes",
                       err |-> IF first # "nil" THEN first ELSE PanicClosed,
                       val |-> Nil]
       ELSE \E r \in {deleteLoop(db, sorted, <<>>)} :
               IF r.err # "nil"
               THEN /\ UNCHANGED <<db, hist>>
                    /\ ret' = [op |-> "DeleteIndexes", err |-> r.err, val |-> Nil]
               ELSE /\ db' = Commit(db, r.batch)
                    /\ hist' = record(hist, "delete", sorted)
                    /\ ret' = [op |-> "DeleteIndexes", err |-> "nil", val |-> Nil]
    /\ UNCHANGED <<ops, chron, vm, trav>>
    /\ UNCHANGED others

\* PebbleDHStore.Lookup
Lookup(mh) ==
    /\ LET returns(r) == [op |-> "Lookup", err |-> r.err, val |-> r.val] IN
       ret' = IF closed /\ checkMultihash(mh) = "nil"
              THEN [op |-> "Lookup", err |-> PanicClosed, val |-> Nil]
              ELSE returns(lookup(db, mh))
    /\ UNCHANGED <<db, hist, ops, chron, vm, trav>>
    /\ UNCHANGED others

\* GetMetadata as a function of the database: [err, val]
getMetadata(d, hvk) ==
    LET found(got) == IF got.err = "ErrNotFound" THEN [err |-> "nil", val |-> Nil]
                      ELSE [err |-> "nil", val |-> got.value]
    IN found(Get(d, hashedValueKeyKey(hvk)))

\* PutMetadata writing the metadata as a merge operand
PutMetadataMerges(hvk, em) ==
    /\ IF closed
       THEN /\ UNCHANGED <<db, mhist>>
            /\ ret' = [op |-> "PutMetadata", err |-> PanicClosed, val |-> Nil]
       ELSE /\ db' = Commit(db, <<[kind |-> "MERGE", key |-> hashedValueKeyKey(hvk),
                                   value |-> em]>>)
            /\ mhist' = Append(mhist, <<"put", hvk, em>>)
            /\ ret' = [op |-> "PutMetadata", err |-> "nil", val |-> Nil]
    /\ UNCHANGED <<hist, ops, chron, vm, trav, closed, calls, snap, aside>>

\* PebbleDHStore.PutMetadata: db.Set at the hashed value key's key
PutMetadata(hvk, em) ==
    /\ IF closed
       THEN /\ UNCHANGED <<db, mhist>>
            /\ ret' = [op |-> "PutMetadata", err |-> PanicClosed, val |-> Nil]
       ELSE /\ db' = Commit(db, <<[kind |-> "SET", key |-> hashedValueKeyKey(hvk),
                                   value |-> em]>>)
            /\ mhist' = Append(mhist, <<"put", hvk, em>>)
            /\ ret' = [op |-> "PutMetadata", err |-> "nil", val |-> Nil]
    /\ UNCHANGED <<hist, ops, chron, vm, trav, closed, calls, snap, aside>>

\* PebbleDHStore.GetMetadata
GetMetadata(hvk) ==
    /\ LET returns(r) == [op |-> "GetMetadata", err |-> r.err, val |-> r.val] IN
       ret' = IF closed
              THEN [op |-> "GetMetadata", err |-> PanicClosed, val |-> Nil]
              ELSE returns(getMetadata(db, hvk))
    /\ UNCHANGED <<db, hist, ops, chron, vm, trav>>
    /\ UNCHANGED others

\* DeleteMetadata returning without the db.Delete
DeleteMetadataKeepsValue(hvk) ==
    /\ IF closed
       THEN /\ UNCHANGED <<db, mhist>>
            /\ ret' = [op |-> "DeleteMetadata", err |-> PanicClosed, val |-> Nil]
       ELSE /\ db' = db
            /\ mhist' = Append(mhist, <<"delete", hvk, Nil>>)
            /\ ret' = [op |-> "DeleteMetadata", err |-> "nil", val |-> Nil]
    /\ UNCHANGED <<hist, ops, chron, vm, trav, closed, calls, snap, aside>>

\* PebbleDHStore.DeleteMetadata: db.Delete at the hashed value key's key
DeleteMetadata(hvk) ==
    /\ IF closed
       THEN /\ UNCHANGED <<db, mhist>>
            /\ ret' = [op |-> "DeleteMetadata", err |-> PanicClosed, val |-> Nil]
       ELSE /\ db' = Commit(db, <<[kind |-> "DEL", key |-> hashedValueKeyKey(hvk),
                                   value |-> Nil]>>)
            /\ mhist' = Append(mhist, <<"delete", hvk, Nil>>)
            /\ ret' = [op |-> "DeleteMetadata", err |-> "nil", val |-> Nil]
    /\ UNCHANGED <<hist, ops, chron, vm, trav, closed, calls, snap, aside>>

\* db.Flush: the memtable run of every key is folded into one entry of a new
\* table
flushed(d) ==
    [k \in DBKeys |->
        IF Len(d[k].mem) = 0 THEN d[k]
        ELSE [sst |-> d[k].sst \o foldRun(k, d[k].mem), mem |-> <<>>]]

\* PebbleDHStore.Flush (and the backend's own flush of a full memtable):
\* the memtable run of every key is folded into one entry of a new table.
Flush ==
    /\ ~closed
    /\ \E k \in DBKeys : Len(db[k].mem) > 0
    /\ db' = flushed(db)
    /\ ret' = [op |-> "Flush", err |-> "nil", val |-> Nil]
    /\ UNCHANGED <<hist, ops, chron, vm, trav>>
    /\ UNCHANGED others

\* The backend's compaction of the tables down to the last level: the table
\* run of every key is folded into one entry and a DELETE left on top of
\* nothing is dropped.
compacted(d) ==
    [k \in DBKeys |->
        IF Len(d[k].sst) = 0 THEN d[k]
        ELSE LET kept(f) == IF Len(f) = 1 /\ f[1].kind = "DEL" THEN <<>> ELSE f IN
             [d[k] EXCEPT !.sst = kept(foldRun(k, d[k].sst))]]

Compact ==
    /\ ~closed
    /\ \E k \in DBKeys : Len(db[k].sst) > 1 \/ (Len(db[k].sst) = 1 /\ db[k].sst[1].kind = "DEL")
    /\ db' = compacted(db)
    /\ UNCHANGED <<ret, hist, ops, chron, vm, trav>>
    /\ UNCHANGED others

\* PebbleDHStore.Close: nothing on a closed store; otherwise flush, close
\* the backend, set closed.
Close ==
    /\ IF closed THEN UNCHANGED <<db, closed>>
       ELSE /\ db' = flushed(db)
            /\ closed' = TRUE
    /\ ret' = [op |-> "Close", err |-> "nil", val |-> Nil]
    /\ UNCHANGED <<hist, ops, chron, vm, trav, mhist, calls, snap, aside>>

\* NewPebbleDHStore on the path of a store that was closed: the backend
\* opens on what the tables hold.
NewPebbleDHStore ==
    /\ closed
    /\ db' = [k \in DBKeys |-> [sst |-> db[k].sst, mem |-> <<>>]]
    /\ closed' = FALSE
    /\ ret' = [op |-> "NewPebbleDHStore", err |-> "nil", val |-> Nil]
    /\ UNCHANGED <<hist, ops, chron, vm, trav, mhist, calls, snap, aside>>

FishPairs == Pairs({MhFish}, EVKs)

\* One multihash, three value keys.
Next ==
    \/ \E n \in 1..MaxBatch :
          /\ Committed + n <= MaxOps
          /\ \E indexes \in [1..n -> FishPairs] : MergeIndexes(indexes)
    \/ \E n \in 1..MaxBatch :
          /\ Committed + n <= MaxOps
          /\ \E indexes \in [1..n -> FishPairs] : DeleteIndexes(indexes)
    \/ Lookup(MhFish)
    \/ Flush
    \/ Compact

Spec == Init /\ [][Next]_vars

ValidPairs == Pairs(MhsValid, {EvkA, EvkB})

\* Every multihash, well-formed or not, two value keys, short histories.
NextValid ==
    \/ \E n \in 1..MaxBatch :
          /\ Committed + n <= MaxOpsValid
          /\ \E indexes \in [1..n -> ValidPairs] : MergeIndexes(indexes)
    \/ \E n \in 1..MaxBatch :
          /\ Committed + n <= MaxOpsValid
          /\ \E indexes \in [1..n -> ValidPairs] : DeleteIndexes(indexes)
    \/ \E mh \in MhsValid : Lookup(mh)
    \/ Flush
    \/ Compact

SpecValid == Init /\ [][NextValid]_vars

\* The metadata operations on their own, with the backend's flushes and
\* compactions.
NextMeta ==
    \/ \E hvk \in HVKs, em \in EMs : Len(mhist) < MaxMetaOps /\ PutMetadata(hvk, em)
    \/ \E hvk \in HVKs : GetMetadata(hvk)
    \/ \E hvk \in HVKs : Len(mhist) < MaxMetaOps /\ DeleteMetadata(hvk)
    \/ Flush
    \/ Compact

SpecMeta == Init /\ [][NextMeta]_vars

StorePairs == Pairs({MhDigest}, {EvkA, EvkB})

\* Index and metadata operations side by side, one call at a time.
NextStore ==
    \/ \E index \in StorePairs : Committed < MaxOpsStore /\ MergeIndexes(<<index>>)
    \/ \E index \in StorePairs : Committed < MaxOpsStore /\ DeleteIndexes(<<index>>)
    \/ Lookup(MhDigest)
    \/ \E hvk \in HVKs, em \in EMs : Len(mhist) < MaxMetaStore /\ PutMetadata(hvk, em)
    \/ \E hvk \in HVKs : GetMetadata(hvk)
    \/ \E hvk \in HVKs : Len(mhist) < MaxMetaStore /\ DeleteMetadata(hvk)
    \/ Flush
    \/ Compact

SpecStore == Init /\ [][NextStore]_vars

\* A store that is closed and opened again between its calls; the backend
\* flushes when Close tells it to.
NextClose ==
    \/ \E index \in FishPairs : Committed < MaxOpsClose /\ MergeIndexes(<<index>>)
    \/ \E index \in FishPairs : Committed < MaxOpsClose /\ DeleteIndexes(<<index>>)
    \/ \E mh \in {MhFish, MhLobster} : Lookup(mh)
    \/ Len(mhist) < MaxMetaClose /\ PutMetadata(HvkA, EmA)
    \/ GetMetadata(HvkA)
    \/ Len(mhist) < MaxMetaClose /\ DeleteMetadata(HvkA)
    \/ Close
    \/ NewPebbleDHStore

SpecClose == Init /\ [][NextClose]_vars

\* maxInsertion pairs of one multihash, with distinct value keys
FishRun == [i \in 1..maxInsertion |-> Index(MhFish, <<110 + i>>)]

\* FishRun with a pair of a smaller multihash listed at position p
LongBatch(p) ==
    SubSeq(FishRun, 1, p - 1) \o <<Index(MhCrab, EvkA)>> \o SubSeq(FishRun, p, maxInsertion)

\* Batches up to and just beyond the length the library sorts by insertion.
NextLong ==
    \/ \E n \in 1..maxInsertion :
          Committed < MaxOpsLong /\ MergeIndexes(SubSeq(FishRun, 1, n))
    \/ \E p \in 1..(maxInsertion + 1) :
          Committed < MaxOpsLong /\ MergeIndexes(LongBatch(p))
    \/ \E mh \in {MhFish, MhCrab} : Lookup(mh)
    \/ Flush

SpecLong == Init /\ [][NextLong]_vars

CorruptMhs == {MhCrab, MhFish}
CorruptPairs == Pairs({MhCrab}, {EvkA}) \cup Pairs({MhFish}, {EvkA, EvkB})

\* batches of one pair and of two
CorruptBatches == {<<index>> : index \in CorruptPairs}
                  \cup {<<i1, i2>> : i1 \in CorruptPairs, i2 \in CorruptPairs}

\* The backend loses the tail of the value stored at the key of mh: its
\* first n bytes remain.
Corrupt(mh, n) ==
    LET k == multihashKey(mh) IN
    /\ ~closed
    /\ \E got \in {Get(db, k)} :
          /\ got.err = "nil"
          /\ n \in 1..(Len(got.value) - 1)
          /\ db' = [db EXCEPT ![k] = [sst |-> <<Entry("SET", SubSeq(got.value, 1, n))>>,
                                      mem |-> <<>>]]
    /\ UNCHANGED <<ret, hist, ops, chron, vm, trav>>
    /\ UNCHANGED others

\* A store whose backend may corrupt a stored value; nothing is merged onto
\* a value that no longer decodes.
NextCorrupt ==
    \/ \E index \in CorruptPairs :
          /\ Committed < MaxOpsCorrupt
          /\ lookup(db, index.Key).err = "nil"
          /\ MergeIndexes(<<index>>)
    \/ \E indexes \in CorruptBatches :
          Committed + Len(indexes) <= MaxOpsCorrupt /\ DeleteIndexes(indexes)
    \/ \E mh \in CorruptMhs : \E n \in 1..MaxCut : Corrupt(mh, n)
    \/ \E mh \in CorruptMhs : Lookup(mh)
    \/ Flush
    \/ Compact

SpecCorrupt == Init /\ [][NextCorrupt]_vars

-----------------------------------------------------------------------------
(* Scratch buffers: the steps of the calls *)

\* the buffers of a pool that exist: those in the pool and those a running
\* call has a handle on
Known(what) ==
    {b.id : b \in BagToSet(scratch[what])} \cup {scratch.run[p][what].id : p \in Procs}

\* the identity of the next buffer pool.New makes: the least one not known
newId(what) ==
    CHOOSE id \in 1..(Cardinality(Known(what)) + 1) :
       /\ id \notin Known(what)
       /\ \A other \in 1..(id - 1) : other \in Known(what)

\* The buffers of a pool renamed, which changes nothing the calls can tell:
\* those a call has a handle on are numbered in the order of the goroutines,
\* and the others, which no call can tell apart, after them.
renamed(s, what) ==
    LET handled == {s.run[p][what].id : p \in Procs} \ {0}
        first(id) == CHOOSE p \in Procs :
                        /\ s.run[p][what].id = id
                        /\ \A q \in Procs : s.run[q][what].id = id => p <= q
        unhandled == {b.id : b \in BagToSet(s[what])} \ handled
    IN [id \in handled \cup unhandled \cup {0} |->
           IF id = 0 THEN 0
           ELSE IF id \in handled
           THEN Cardinality({other \in handled : first(other) <= first(id)})
           ELSE Cardinality(handled) + Cardinality({other \in unhandled : other <= id})]

canonical(s) ==
    LET key == renamed(s, "key")
        sec == renamed(s, "sec")
        pool(b, name) ==
            LET ids == {x.id : x \in BagToSet(b)}
                of(id) == CHOOSE x \in BagToSet(b) : x.id = id
            IN [x \in {[of(id) EXCEPT !.id = name[id]] : id \in ids} |->
                   CopiesIn(of(CHOOSE id \in ids : name[id] = x.id), b)]
    IN [s EXCEPT !.key = pool(s.key, key),
                 !.sec = pool(s.sec, sec),
                 !.run = [p \in Procs |-> [s.run[p] EXCEPT !.key.id = key[@],
                                                            !.sec.id = sec[@]]]]

RECURSIVE runOn(_, _)
\* the call goes on to its next lease or release, handing the bytes of its
\* buffers to the backend or reading them on the way; a call that has run
\* to its end drops its handles
runOn(r, bad) ==
    IF Len(r.prog) = 0 THEN [run |-> NoLeases, bad |-> bad]
    ELSE IF Head(r.prog)[1] # "use" THEN [run |-> r, bad |-> bad]
    ELSE runOn([r EXCEPT !.prog = Tail(@)],
               IF r[Head(r.prog)[2]].open THEN bad ELSE "used after release")

\* a goroutine begins a call
ScratchStart(p, prog) ==
    /\ scratch.run[p].prog = <<>>
    /\ \E next \in {runOn([NoLeases EXCEPT !.prog = prog], scratch.bad)} :
          scratch' = canonical([scratch EXCEPT !.run[p] = next.run, !.bad = next.bad])
    /\ UNCHANGED <<db, ret, hist, ops, chron, vm, trav, closed, mhist, calls, snap, codec, find>>

\* leaseKey or leaseSectionBuff, and the growth that follows it: sync.Pool
\* hands out a pooled buffer b, removing it, or makes a new one
ScratchLease(p, pooled) ==
    LET r == scratch.run[p] IN
    /\ Len(r.prog) > 0
    /\ Head(r.prog)[1] = "lease"
    /\ \E what \in {Head(r.prog)[2]} :
          /\ IF pooled THEN BagToSet(scratch[what]) # {}
                       ELSE BagCardinality(scratch[what]) < MaxPooled
          /\ \E b \in IF pooled THEN BagToSet(scratch[what])
                                 ELSE {newBuffer(what, newId(what))} :
             \E next \in {runOn([r EXCEPT
                                    !.prog = Tail(@),
                                    ![what] = [id |-> b.id,
                                               cap |-> maybeGrow(b.cap, Head(r.prog)[3]),
                                               open |-> TRUE]],
                                scratch.bad)} :
                scratch' = canonical([scratch EXCEPT
                    ![what] = IF pooled THEN @ (-) SetToBag({b}) ELSE @,
                    !.run[p] = next.run,
                    !.bad = next.bad])
    /\ UNCHANGED <<db, ret, hist, ops, chron, vm, trav, closed, mhist, calls, snap, codec, find>>

RECURSIVE mentioned(_, _)
\* the rest of the call refers to the handle it has now
mentioned(prog, what) ==
    IF Len(prog) = 0 THEN FALSE
    ELSE IF Head(prog)[2] = what THEN Head(prog)[1] # "lease"
    ELSE mentioned(Tail(prog), what)

\* key.Close, sectionBuffer.Close: the buffer is put into its pool unless it
\* has grown beyond the pool's cap; a handle the call does not refer to
\* again is dropped
ScratchClose(p) ==
    LET r == scratch.run[p] IN
    /\ Len(r.prog) > 0
    /\ Head(r.prog)[1] = "close"
    /\ \E what \in {Head(r.prog)[2]} :
       \E next \in {runOn([r EXCEPT !.prog = Tail(@),
                                    ![what] = IF mentioned(Tail(r.prog), what)
                                              THEN [@ EXCEPT !.open = FALSE]
                                              ELSE NoHandle],
                          IF r[what].open THEN scratch.bad ELSE "released twice")} :
          scratch' = canonical([scratch EXCEPT
              ![what] = IF pooledOnClose(what, r[what].cap)
                        THEN @ (+) SetToBag({newBuffer(what, r[what].id)})
                        ELSE @,
              !.run[p] = next.run,
              !.bad = next.bad])
    /\ UNCHANGED <<db, ret, hist, ops, chron, vm, trav, closed, mhist, calls, snap, codec, find>>

NextScratch ==
    \/ \E p \in Procs, prog \in Programs : ScratchStart(p, prog)
    \/ \E p \in Procs, pooled \in BOOLEAN : ScratchLease(p, pooled)
    \/ \E p \in Procs : ScratchClose(p)

SpecScratch == Init /\ [][NextScratch]_vars

SizeEVKs == {EvkA, EvkMax, EvkBig}
SizeEMs == {EmA, EmMax, EmBig}

\* Payloads below, at and above 100 KB.
NextSize ==
    \/ \E evk \in SizeEVKs :
          Committed < MaxOpsSize /\ MergeIndexes(<<Index(MhFish, evk)>>)
    \/ \E em \in SizeEMs : Len(mhist) < MaxMetaSize /\ PutMetadata(HvkA, em)
    \/ Lookup(MhFish)
    \/ GetMetadata(HvkA)
    \/ Flush

SpecSize == Init /\ [][NextSize]_vars

-----------------------------------------------------------------------------
(* The HTTP server.  A handler decodes the request, makes one store call  *)
(* and answers with a status computed from what the call returned.         *)

\* net/http status codes
StatusOK == 200
StatusAccepted == 202
StatusBadRequest == 400
StatusNotFound == 404
StatusInternalServerError == 500

\* Server.handleError with every store error answered as a client error
handleErrorAllBadRequest(err) == StatusBadRequest

\* Server.handleError: a switch on the type of the error
handleError(err) ==
    IF err \in {"ErrUnsupportedMulticodecCode", "ErrMultihashDecode",
                "ErrInvalidHashedValueKey"}
    THEN StatusBadRequest
    ELSE StatusInternalServerError

\* Server.handlePutMhs, from the return of dhs.MergeIndexes on
handlePutMhs(r) == IF r.err # "nil" THEN handleError(r.err) ELSE StatusAccepted

\* Server.handleDeleteMhs, from the return of dhs.DeleteIndexes on
handleDeleteMhs(r) == IF r.err # "nil" THEN handleError(r.err) ELSE StatusAccepted

\* Server.lookupMh leaving every lookup without results to its caller
lookupMhNeverWritesNotFound(r, writeIfNotFound) ==
    IF r.err # "nil" THEN [done |-> TRUE, status |-> handleError(r.err)]
    ELSE IF r.val = Nil THEN [done |-> FALSE, status |-> 0]
    ELSE [done |-> TRUE, status |-> StatusOK]

\* Server.lookupMh, from the return of dhs.Lookup on: whether the request was
\* answered, and with what.  encResponseWriter.close answers 404 when no
\* value key was written; a response written without WriteHeader is a 200.
lookupMh(r, writeIfNotFound) ==
    IF r.err # "nil" THEN [done |-> TRUE, status |-> handleError(r.err)]
    ELSE IF r.val = Nil /\ ~writeIfNotFound THEN [done |-> FALSE, status |-> 0]
    ELSE IF Len(r.val) = 0 THEN [done |-> TRUE, status |-> StatusNotFound]
    ELSE [done |-> TRUE, status |-> StatusOK]

\* what Server.dhfindMh may answer a request handed on to it; 0 stands for a
\* server without dhfind
DhfindOff == 0
DhfindStatuses == {StatusOK, StatusNotFound, StatusInternalServerError}

\* Server.handleMhOrCidSubtree for a GET whose multihash reached dhs.Lookup:
\* the encrypted path writes the not-found itself, the other path hands a
\* lookup without results on to dhfind when there is one.
handleMhOrCidSubtree(r, encrypted, dhfind) ==
    IF encrypted THEN lookupMh(r, TRUE).status
    ELSE LET l == lookupMh(r, dhfind = DhfindOff) IN
         IF l.done THEN l.status ELSE dhfind

\* Server.handleNoEncMhOrCidSubtree for a GET of mh over the database d: the
\* calls it makes, in order, and its answer.  rwriter.New has decoded mh;
\* dhs.Lookup is called for a DBL_SHA2_256 multihash only, and dhfindMh
\* answers 400 without a call when the server has no dhfind.
handleNoEncMhOrCidSubtree(d, mh, dhfind) ==
    LET r == lookup(d, mh)
        l == lookupMh(r, dhfind = DhfindOff)
        dhfindMh == IF dhfind = DhfindOff
                    THEN [calls |-> <<>>, status |-> StatusBadRequest]
                    ELSE [calls |-> <<"FindAsync">>, status |-> dhfind]
    IN IF Decode(mh).Code = DBL_SHA2_256
       THEN IF l.done THEN [calls |-> <<"Lookup">>, status |-> l.status]
            ELSE [calls |-> <<"Lookup">> \o dhfindMh.calls, status |-> dhfindMh.status]
       ELSE dhfindMh

\* Server.handlePutMetadata, from the return of dhs.PutMetadata on
handlePutMetadata(r) == IF r.err # "nil" THEN handleError(r.err) ELSE StatusAccepted

\* Server.handleGetMetadata, from the return of dhs.GetMetadata on
handleGetMetadata(r) ==
    IF r.err # "nil" THEN handleError(r.err)
    ELSE IF Len(r.val) = 0 THEN StatusNotFound
    ELSE StatusOK

\* Server.handleDeleteMetadata, from the return of dhs.DeleteMetadata on:
\* nothing is written on success, which net/http sends as a 200
handleDeleteMetadata(r) == IF r.err # "nil" THEN handleError(r.err) ELSE StatusOK

\* the status the server answers the request with whose store call returned r
ServeHTTP(r, encrypted, dhfind) ==
    CASE r.op = "MergeIndexes" -> handlePutMhs(r)
      [] r.op = "DeleteIndexes" -> handleDeleteMhs(r)
      [] r.op = "Lookup" -> handleMhOrCidSubtree(r, encrypted, dhfind)
      [] r.op = "PutMetadata" -> handlePutMetadata(r)
      [] r.op = "GetMetadata" -> handleGetMetadata(r)
      [] r.op = "DeleteMetadata" -> handleDeleteMetadata(r)
      [] OTHER -> 0

\* A merge request may carry any bytes as a multihash; the multihash of a
\* GET has been decoded by the response writer before the store sees it.
HttpPairs == Pairs({MhFish, MhSha256, MhLobster}, {EvkA})
HttpLookups == {MhFish, MhSha256}

\* The store calls of the server's handlers, over a backend that may lose
\* the tail of a stored value.
NextHttp ==
    \/ \E index \in HttpPairs :
          /\ Committed < MaxOpsHttp
          /\ checkMultihash(index.Key) # "nil" \/ lookup(db, index.Key).err = "nil"
          /\ MergeIndexes(<<index>>)
    \/ \E index \in HttpPairs : Committed < MaxOpsHttp /\ DeleteIndexes(<<index>>)
    \/ \E mh \in HttpLookups : Lookup(mh)
    \/ \E n \in 1..MaxCut : Corrupt(MhFish, n)
    \/ \E em \in {EmA, Nil} : Len(mhist) < MaxMetaHttp /\ PutMetadata(HvkA, em)
    \/ GetMetadata(HvkA)
    \/ Len(mhist) < MaxMetaHttp /\ DeleteMetadata(HvkA)
    \/ Flush

SpecHttp == Init /\ [][NextHttp]_vars

-----------------------------------------------------------------------------

(* Server.dhfindMh.  The handler launches a goroutine that runs FindAsync  *)
(* and sends what it returns on errChan (capacity 1), and ranges over     *)
(* resChan (unbuffered), on which FindAsync sends its results before it   *)
(* closes the channel and returns.  A send on resChan and the handler's   *)
(* receive are one step.                                                  *)

\* what FindAsync may return
FindErrs == {"nil", "ErrFind"}

\* dhfindMh up to its loop: the channels are made, the goroutine launched
DhfindMhStart ==
    /\ find.h = "idle"
    /\ find' = [find EXCEPT !.h = "range", !.f = "run", !.resChan = "open"]
    /\ UNCHANGED <<db, ret, hist, ops, chron, vm, trav, closed, mhist, calls, snap,
                   codec, scratch>>

\* FindAsync: it has another result and goes to send it, or it has no more,
\* closes resChan and returns
FindAsyncNext ==
    /\ find.f = "run"
    /\ \/ /\ find.sent < MaxResults
          /\ find' = [find EXCEPT !.f = "send"]
       \/ \E e \in FindErrs :
             find' = [find EXCEPT !.f = "returns", !.resChan = "closed", !.ferr = e]
    /\ UNCHANGED <<db, ret, hist, ops, chron, vm, trav, closed, mhist, calls, snap,
                   codec, scratch>>

\* the loop body of dhfindMh leaving the handler when the write fails
DhfindMhReceiveReturnsOnError ==
    /\ find.h = "range" /\ find.f = "send"
    /\ \E ok \in BOOLEAN :
          find' = [find EXCEPT !.f = "run", !.sent = @ + 1, !.haveResults = TRUE,
                               !.wrote = IF ok THEN @ + 1 ELSE @,
                               !.h = IF ok THEN "range" ELSE "done"]
    /\ UNCHANGED <<db, ret, hist, ops, chron, vm, trav, closed, mhist, calls, snap,
                   codec, scratch>>

\* the loop body of dhfindMh: a result is received as FindAsync sends it and
\* written to the client; a failed write is logged and the loop goes on
DhfindMhReceive ==
    /\ find.h = "range" /\ find.f = "send"
    /\ \E ok \in BOOLEAN :
          find' = [find EXCEPT !.f = "run", !.sent = @ + 1, !.haveResults = TRUE,
                               !.wrote = IF ok THEN @ + 1 ELSE @]
    /\ UNCHANGED <<db, ret, hist, ops, chron, vm, trav, closed, mhist, calls, snap,
                   codec, scratch>>

\* errChan <- s.dhfind.FindAsync(...): the goroutine's send, which blocks
\* while the channel is full
FindAsyncReturn ==
    /\ find.f = "returns"
    /\ Len(find.errChan) < 1
    /\ find' = [find EXCEPT !.f = "returned", !.errChan = Append(@, find.ferr)]
    /\ UNCHANGED <<db, ret, hist, ops, chron, vm, trav, closed, mhist, calls, snap,
                   codec, scratch>>

\* the range loop ends when resChan is closed
DhfindMhRangeEnd ==
    /\ find.h = "range" /\ find.resChan = "closed"
    /\ find' = [find EXCEPT !.h = "errwait"]
    /\ UNCHANGED <<db, ret, hist, ops, chron, vm, trav, closed, mhist, calls, snap,
                   codec, scratch>>

\* err = <-errChan and the answer: the error, 404 without results, or the
\* finalized response
DhfindMhAnswer ==
    /\ find.h = "errwait"
    /\ Len(find.errChan) > 0
    /\ find' = [find EXCEPT !.h = "done", !.errChan = Tail(@), !.err = Head(find.errChan),
                            !.answer = IF Head(find.errChan) # "nil" THEN "handleError"
                                       ELSE IF ~find.haveResults THEN "StatusNotFound"
                                       ELSE "Close"]
    /\ UNCHANGED <<db, ret, hist, ops, chron, vm, trav, closed, mhist, calls, snap,
                   codec, scratch>>

\* the steps of the handler, and those of the goroutine it launched
HandlerSteps == DhfindMhReceive \/ DhfindMhRangeEnd \/ DhfindMhAnswer
FindSteps == FindAsyncNext \/ DhfindMhReceive \/ FindAsyncReturn

NextDhfind ==
    \/ DhfindMhStart
    \/ FindAsyncNext
    \/ DhfindMhReceive
    \/ FindAsyncReturn
    \/ DhfindMhRangeEnd
    \/ DhfindMhAnswer

\* One dhfind request.  Both goroutines are scheduled fairly, and FindAsync
\* is taken to go on to its next send or its return whenever it can.
SpecDhfind == Init /\ [][NextDhfind]_vars /\ WF_vars(HandlerSteps) /\ WF_vars(FindSteps)

-----------------------------------------------------------------------------

(* Concurrent calls.  PebbleDHStore takes no lock: a call interleaves with *)
(* the others at each of its backend calls, s.db.Get and batch.Commit,     *)
(* which the backend runs atomically.                                      *)

AllIdle == \A p \in Procs : calls[p].pc = "idle"

AllDone == \A p \in Procs : calls[p].pc = "done"

\* goroutine p calls, the database being d
begins(p, d) ==
    /\ calls[p].pc = "idle"
    /\ \A q \in Procs : q < p => calls[q].pc # "idle"
    /\ snap' = IF AllIdle THEN d ELSE snap

\* MergeIndexes building its batch by reading the key and writing the
\* extended list back
BeginMergeReadModifyWrite(p, indexes) ==
    LET sorted == sortIndexes(indexes)
        r == mergeLoop(sorted, <<>>)
        was == lookup(db, sorted[1].Key).val
        evk == sorted[1].Value
    IN
    /\ begins(p, db)
    /\ calls' = [calls EXCEPT ![p] =
                    IF r.err # "nil"
                    THEN [pc |-> "done", op |-> "merge", all |-> sorted, indexes |-> <<>>,
                          batch |-> <<>>, err |-> r.err]
                    ELSE [pc |-> "commit", op |-> "merge", all |-> sorted, indexes |-> <<>>,
                          batch |-> <<[kind |-> "SET", key |-> multihashKey(sorted[1].Key),
                                       value |-> marshalEncryptedIndexKeys(
                                           IF exists(was, evk) THEN was
                                           ELSE Append(was, evk))]>>,
                          err |-> "nil"]]
    /\ UNCHANGED <<db, ret, hist, ops, chron, vm, trav, closed, mhist, aside>>

\* MergeIndexes up to its batch.Commit: the sort and the loop touch nothing
\* shared
BeginMerge(p, indexes) ==
    LET sorted == sortIndexes(indexes)
        r == mergeLoop(sorted, <<>>)
    IN
    /\ begins(p, db)
    /\ calls' = [calls EXCEPT ![p] =
                    IF r.err # "nil"
                    THEN [pc |-> "done", op |-> "merge", all |-> sorted, indexes |-> <<>>,
                          batch |-> <<>>, err |-> r.err]
                    ELSE [pc |-> "commit", op |-> "merge", all |-> sorted, indexes |-> <<>>,
                          batch |-> r.batch, err |-> "nil"]]
    /\ UNCHANGED <<db, ret, hist, ops, chron, vm, trav, closed, mhist, aside>>

\* DeleteIndexes up to its loop: the sort
BeginDelete(p, indexes) ==
    LET sorted == sortIndexes(indexes) IN
    /\ begins(p, db)
    /\ calls' = [calls EXCEPT ![p] =
                    [pc |-> IF Len(sorted) = 0 THEN "commit" ELSE "loop", op |-> "delete",
                     all |-> sorted, indexes |-> sorted, batch |-> <<>>, err |-> "nil"]]
    /\ UNCHANGED <<db, ret, hist, ops, chron, vm, trav, closed, mhist, aside>>

\* one iteration of the loop of DeleteIndexes: validate the pair, s.db.Get,
\* remove, add to the batch
DeleteStep(p) ==
    LET c == calls[p]
        e == checkMultihash(c.indexes[1].Key)
    IN
    /\ c.pc = "loop"
    /\ \E r \in {deleteOne(db, c.indexes[1], c.batch)} :
          \E err \in {IF e # "nil" THEN e ELSE IF closed THEN PanicClosed ELSE r.err} :
             calls' = [calls EXCEPT ![p] =
                          IF err # "nil"
                          THEN [c EXCEPT !.pc = "done", !.err = err]
                          ELSE [c EXCEPT !.pc = IF Len(c.indexes) = 1 THEN "commit"
                                                ELSE "loop",
                                         !.indexes = Tail(c.indexes),
                                         !.batch = r.batch]]
    /\ UNCHANGED <<db, ret, hist, ops, chron, vm, trav, closed, mhist, snap, aside>>

\* batch.Commit of a MergeIndexes or DeleteIndexes call, and its return
CommitCall(p) ==
    LET c == calls[p] IN
    /\ c.pc = "commit"
    /\ IF closed
       THEN /\ calls' = [calls EXCEPT ![p] = [c EXCEPT !.pc = "done", !.err = PanicClosed]]
            /\ UNCHANGED <<db, hist>>
       ELSE /\ calls' = [calls EXCEPT ![p] = [c EXCEPT !.pc = "done"]]
            /\ db' = Commit(db, c.batch)
            /\ hist' = record(hist, c.op, c.all)
    /\ UNCHANGED <<ret, ops, chron, vm, trav, closed, mhist, snap, aside>>

ConcPairs == Pairs({MhFish}, {EvkA, EvkB})

\* Calls made one after the other fill the store; then every goroutine
\* makes one call on the open store, and Close may be called while they run.
NextConc ==
    \/ \E index \in FishPairs :
          AllIdle /\ ~closed /\ Committed < MaxSetup /\ MergeIndexes(<<index>>)
    \/ \E index \in FishPairs :
          AllIdle /\ ~closed /\ Committed < MaxSetup /\ DeleteIndexes(<<index>>)
    \/ Flush
    \/ Compact
    \/ \E p \in Procs, index \in ConcPairs : ~closed /\ BeginMerge(p, <<index>>)
    \/ \E p \in Procs, index \in ConcPairs : ~closed /\ BeginDelete(p, <<index>>)
    \/ \E p \in Procs : DeleteStep(p)
    \/ \E p \in Procs : CommitCall(p)
    \/ Close

SpecConc == Init /\ [][NextConc]_vars

\* Concurrent merges only, with the backend's flushes and compactions.
NextConcMerge ==
    \/ \E index \in FishPairs :
          AllIdle /\ Committed < MaxSetupMerge /\ MergeIndexes(<<index>>)
    \/ Flush
    \/ Compact
    \/ \E p \in Procs, index \in FishPairs : BeginMerge(p, <<index>>)
    \/ \E p \in Procs : CommitCall(p)

SpecConcMerge == Init /\ [][NextConcMerge]_vars

-----------------------------------------------------------------------------
(* Concurrent Close.  PebbleDHStore.closed is a plain bool read and       *)
(* written without a lock: a Close call interleaves with the others at   *)
(* its read of the flag, s.db.Flush, s.db.Close and the write of the     *)
(* flag.  The backend panics when flushed or closed after its Close.     *)

\* the entry a Close call logs for a backend call it makes
BackendCall(name) == [kind |-> name, key |-> <<>>, value |-> Nil]

\* the backend calls named name that the Close calls have made
Invoked(name) ==
    {<<p, i>> \in Procs \X (1..2) :
        /\ calls[p].op = "close" /\ i <= Len(calls[p].batch)
        /\ calls[p].batch[i].kind = name}

\* pebble.DB.Close has run
BackendClosed == closed \/ Invoked("Close") # {}

\* Close reading s.closed: the read races with the write a concurrent Close
\* call makes, so it may still see false after that write
BeginClose(p) ==
    /\ begins(p, db)
    /\ \E seen \in {closed} \cup (IF Invoked("Close") # {} THEN {FALSE} ELSE {}) :
          calls' = [calls EXCEPT ![p] =
                       [Idle EXCEPT !.op = "close",
                                    !.pc = IF seen THEN "done" ELSE "flush"]]
    /\ UNCHANGED <<db, ret, hist, ops, chron, vm, trav, closed, mhist, aside>>

\* ferr := s.db.Flush()
CloseFlush(p) ==
    LET c == calls[p] IN
    /\ c.pc = "flush"
    /\ IF BackendClosed
       THEN /\ calls' = [calls EXCEPT ![p] =
                            [c EXCEPT !.pc = "done", !.err = PanicClosed,
                                      !.batch = Append(c.batch, BackendCall("Flush"))]]
            /\ UNCHANGED db
       ELSE /\ calls' = [calls EXCEPT ![p] =
                            [c EXCEPT !.pc = "dbclose",
                                      !.batch = Append(c.batch, BackendCall("Flush"))]]
            /\ db' = flushed(db)
    /\ UNCHANGED <<ret, hist, ops, chron, vm, trav, closed, mhist, snap, aside>>

\* cerr := s.db.Close()
CloseBackend(p) ==
    LET c == calls[p] IN
    /\ c.pc = "dbclose"
    /\ calls' = [calls EXCEPT ![p] =
                    IF BackendClosed
                    THEN [c EXCEPT !.pc = "done", !.err = PanicClosed,
                                   !.batch = Append(c.batch, BackendCall("Close"))]
                    ELSE [c EXCEPT !.pc = "mark",
                                   !.batch = Append(c.batch, BackendCall("Close"))]]
    /\ UNCHANGED <<db, ret, hist, ops, chron, vm, trav, closed, mhist, snap, aside>>

\* s.closed = true, and the return of cerr or ferr
CloseReturn(p) ==
    LET c == calls[p] IN
    /\ c.pc = "mark"
    /\ closed' = TRUE
    /\ calls' = [calls EXCEPT ![p] = [c EXCEPT !.pc = "done"]]
    /\ UNCHANGED <<db, ret, hist, ops, chron, vm, trav, mhist, snap, aside>>

\* A store is filled, then every goroutine calls Close once.
NextConcClose ==
    \/ \E index \in ConcPairs :
          AllIdle /\ ~closed /\ Committed < MaxSetupClose /\ MergeIndexes(<<index>>)
    \/ \E p \in Procs : BeginClose(p)
    \/ \E p \in Procs : CloseFlush(p)
    \/ \E p \in Procs : CloseBackend(p)
    \/ \E p \in Procs : CloseReturn(p)

SpecConcClose == Init /\ [][NextConcClose]_vars

-----------------------------------------------------------------------------

(* The merge operator on its own: operands of one multihash key, written   *)
(* oldest first, folded in any grouping and direction through the          *)
(* ValueMerger interface, each Finish replacing the operands it covered.   *)

HarnessKey == multihashKey(MhFish)

\* a MergeIndexes pair reaches the backend as one single-section operand
WriteOperand(evk) ==
    /\ vm = NoMerger
    /\ Len(chron) < MaxOperands
    /\ ops' = Append(ops, marshalEncryptedIndexKey(evk))
    /\ chron' = Append(chron, evk)
    /\ UNCHANGED <<db, ret, hist, vm, trav>>
    /\ UNCHANGED others

\* Merger.Merge(key, value) on operand i
MergeStart(i) ==
    /\ vm = NoMerger
    /\ trav.passes < MaxPasses
    /\ vm' = [Merge(HarnessKey, ops[i]) EXCEPT !.lo = i, !.hi = i]
    /\ UNCHANGED <<db, ret, hist, ops, chron, trav>>
    /\ UNCHANGED others

\* ValueMerger.MergeOlder on the operand just below the ones covered
MergeOlderStep ==
    /\ vm # NoMerger
    /\ vm.lo > 1
    /\ vm' = [MergeOlder(vm, ops[vm.lo - 1]) EXCEPT !.lo = vm.lo - 1]
    /\ trav' = [trav EXCEPT !.older = TRUE]
    /\ UNCHANGED <<db, ret, hist, ops, chron>>
    /\ UNCHANGED others

\* ValueMerger.MergeNewer on the operand just above the ones covered
MergeNewerStep ==
    /\ vm # NoMerger
    /\ vm.hi < Len(ops)
    /\ vm' = [MergeNewer(vm, ops[vm.hi + 1]) EXCEPT !.hi = vm.hi + 1]
    /\ trav' = [trav EXCEPT !.newer = TRUE]
    /\ UNCHANGED <<db, ret, hist, ops, chron>>
    /\ UNCHANGED others

\* ValueMerger.DeletableFinish: the covered operands give way to the result
FinishStep ==
    /\ vm # NoMerger
    /\ ops' = SubSeq(ops, 1, vm.lo - 1)
              \o (IF DeletableFinish(vm).delete THEN <<>> ELSE <<DeletableFinish(vm).b>>)
              \o SubSeq(ops, vm.hi + 1, Len(ops))
    /\ vm' = NoMerger
    /\ trav' = [trav EXCEPT !.passes = @ + 1]
    /\ UNCHANGED <<db, ret, hist, chron>>
    /\ UNCHANGED others

NextMerger ==
    \/ \E evk \in EVKs : WriteOperand(evk)
    \/ \E i \in 1..Len(ops) : MergeStart(i)
    \/ MergeOlderStep
    \/ MergeNewerStep
    \/ FinishStep

SpecMerger == Init /\ [][NextMerger]_vars

-----------------------------------------------------------------------------
(* The section framing on its own: a sequence of byte slices is framed     *)
(* into a buffer, the buffer may lose its tail, and is decoded.            *)

\* byte slices: empty, short, and one whose length takes a two-byte varint
SliceLong == [i \in 1..130 |-> 107]
Slices == {<<>>, EvkA, EvkC, SliceLong}

\* the caller's slices
CodecInput(x) ==
    /\ codec.pc = "input"
    /\ Len(codec.xs) < MaxSlices
    /\ codec' = [codec EXCEPT !.xs = Append(@, x)]
    /\ UNCHANGED <<db, ret, hist, ops, chron, vm, trav, closed, mhist, calls, snap, scratch, find>>

\* marshalEncryptedIndexKeys on the slices
CodecMarshal ==
    /\ codec.pc = "input"
    /\ codec' = [codec EXCEPT !.pc = "framed", !.buf = marshalEncryptedIndexKeys(codec.xs)]
    /\ UNCHANGED <<db, ret, hist, ops, chron, vm, trav, closed, mhist, calls, snap, scratch, find>>

\* the buffer reaches the decoder with only its first n bytes
CodecCut(n) ==
    /\ codec.pc = "framed"
    /\ ~codec.cut
    /\ codec' = [codec EXCEPT !.buf = SubSeq(@, 1, n), !.cut = TRUE]
    /\ UNCHANGED <<db, ret, hist, ops, chron, vm, trav, closed, mhist, calls, snap, scratch, find>>

\* unmarshalEncryptedIndexKeys on the buffer
CodecUnmarshal ==
    /\ codec.pc = "framed"
    /\ codec' = [codec EXCEPT !.pc = "done", !.out = unmarshalEncryptedIndexKeys(codec.buf)]
    /\ UNCHANGED <<db, ret, hist, ops, chron, vm, trav, closed, mhist, calls, snap, scratch, find>>

NextCodec ==
    \/ \E x \in Slices : CodecInput(x)
    \/ CodecMarshal
    \/ \E n \in 0..(Len(codec.buf) - 1) : CodecCut(n)
    \/ CodecUnmarshal

SpecCodec == Init /\ [][NextCodec]_vars

-----------------------------------------------------------------------------
(* What the histories say the store should hold *)

Range(s) == {s[i] : i \in 1..Len(s)}

Distinct(s) == \A i, j \in 1..Len(s) : i # j => s[i] # s[j]

IsMerges(h) == \A i \in 1..Len(h) : h[i][1] = "merge"

Evks(h) == [i \in 1..Len(h) |-> h[i][2]]

Without(s, v) == SelectSeq(s, LAMBDA x : x # v)

RECURSIVE Abstract(_)
\* the abstract list: merge(e) appends e iff e is not in the list,
\* delete(e) removes e
Abstract(h) ==
    IF Len(h) = 0 THEN <<>>
    ELSE LET before == Abstract(SubSeq(h, 1, Len(h) - 1))
             last == h[Len(h)]
         IN IF last[1] = "merge"
            THEN IF last[2] \in Range(before) THEN before ELSE Append(before, last[2])
            ELSE Without(before, last[2])

Found(val) == [err |-> "nil", val |-> val]

FishBatches == BatchesOf(FishPairs, MaxBatch)


-----------------------------------------------------------------------------
(* Claims *)

\* C1: after merging distinct EVKs e1..en one after the other under a
\* multihash that was absent, Lookup returns exactly [e1, ..., en].
C1_RoundTrip ==
    (IsMerges(hist[MhFish]) /\ Distinct(Evks(hist[MhFish])))
        => lookup(db, MhFish) = Found(Evks(hist[MhFish]))

\* C2: a successful DeleteIndexes([(mh, v)]) with v in Lookup(mh) = S leaves
\* Lookup(mh) = S without v, the others in their previous order (empty and
\* no error when v was the only element).
C2_DeleteCorrect ==
    [][\A v \in EVKs :
          (/\ DeleteIndexes(<<Index(MhFish, v)>>)
           /\ ret'.err = "nil"
           /\ lookup(db, MhFish).err = "nil"
           /\ v \in Range(lookup(db, MhFish).val))
          => lookup(db', MhFish) = Found(Without(lookup(db, MhFish).val, v))]_vars

\* C2 witness: a delete of a stored value has returned and values remain.
C2_Witness ==
    LET h == hist[MhFish] IN
    /\ ret.op = "DeleteIndexes" /\ ret.err = "nil"
    /\ Len(h) >= 3
    /\ h[Len(h)][1] = "delete"
    /\ h[Len(h)][2] \in Range(Abstract(SubSeq(h, 1, Len(h) - 1)))
    /\ Len(lookup(db, MhFish).val) >= 1

\* C3: after any sequence of MergeIndexes and DeleteIndexes calls Lookup(mh)
\* equals the abstract list, element for element and in the same order.
C3_RefinesAbstractList ==
    lookup(db, MhFish) = Found(Abstract(hist[MhFish]))

\* C4: after merges only, some EVK merged more than once, Lookup returns each
\* EVK once, ordered by the position of its first merge.
C4_FirstMergeOrder ==
    (IsMerges(hist[MhFish]) /\ ~Distinct(Evks(hist[MhFish])))
        => lookup(db, MhFish) = Found(Abstract(hist[MhFish]))

\* C5: three distinct EVKs a, b, c written in that order fold to [a, b, c]
\* whichever operands the backend combines first (all folds running in one
\* direction, newest first or oldest first).
C5_Associative ==
    (/\ vm = NoMerger
     /\ Len(chron) = 3 /\ Distinct(chron)
     /\ Len(ops) = 1
     /\ ~(trav.older /\ trav.newer))
        => ops[1] = marshalEncryptedIndexKeys(chron)

\* C6: merging the same (mh, e) k >= 1 times stores what one merge stores,
\* and Lookup(mh) returns [e].
C6_Idempotent ==
    \A e \in EVKs :
        (/\ Len(hist[MhFish]) >= 1
         /\ \A i \in 1..Len(hist[MhFish]) : hist[MhFish][i] = <<"merge", e>>)
        => /\ lookup(db, MhFish) = Found(<<e>>)
           /\ Get(db, multihashKey(MhFish)) = [err |-> "nil", value |-> marshalEncryptedIndexKey(e)]

\* C6 witness: the same pair merged at least twice, with a flush behind it.
C6_Witness ==
    /\ Len(hist[MhFish]) >= 2
    /\ \A i \in 1..Len(hist[MhFish]) : hist[MhFish][i] = <<"merge", EvkC>>
    /\ Len(db[multihashKey(MhFish)].sst) >= 1
    /\ Len(db[multihashKey(MhFish)].mem) >= 1

\* C7: a successful DeleteIndexes call with several pairs of one multihash
\* removes every listed value and keeps every other one.
C7_BatchDelete ==
    [][\A indexes \in FishBatches :
          (DeleteIndexes(indexes) /\ ret'.err = "nil")
          => LET S == Range(lookup(db, MhFish).val)
                 T == Range(lookup(db', MhFish).val)
                 V == {indexes[i].Value : i \in 1..Len(indexes)}
             IN T = S \ V]_vars

\* C8: a multihash that does not decode, or decodes to another code than
\* DBL_SHA2_256, makes MergeIndexes, DeleteIndexes and Lookup return
\* ErrMultihashDecode, resp. ErrUnsupportedMulticodecCode, Lookup return a
\* nil result, and leaves the store as it was.
C8_Rejects(mh, err) ==
    /\ \A v \in {EvkA, EvkB} :
          /\ MergeIndexes(<<Index(mh, v)>>) => (ret'.err = err /\ db' = db)
          /\ DeleteIndexes(<<Index(mh, v)>>) => (ret'.err = err /\ db' = db)
    /\ Lookup(mh) => (ret'.err = err /\ ret'.val = Nil /\ db' = db)

C8_IdentifierValidation ==
    [][/\ C8_Rejects(MhLobster, "ErrMultihashDecode")
       /\ C8_Rejects(MhSha256, "ErrUnsupportedMulticodecCode")]_vars

\* C8 witness: a call on a SHA2_256 multihash was refused on a store that
\* holds data.
C8_Witness ==
    /\ ret.op \in {"MergeIndexes", "DeleteIndexes", "Lookup"}
    /\ ret.err = "ErrUnsupportedMulticodecCode"
    /\ Committed >= 1

\* C9: a DBL_SHA2_256 multihash whose digest is not 32 bytes long makes
\* MergeIndexes, DeleteIndexes and Lookup fail.
C9_DigestLength ==
    [][/\ \A v \in {EvkA, EvkB} :
             /\ MergeIndexes(<<Index(MhShort, v)>>) => ret'.err # "nil"
             /\ DeleteIndexes(<<Index(MhShort, v)>>) => ret'.err # "nil"
       /\ Lookup(MhShort) => ret'.err # "nil"]_vars

\* C10: when MergeIndexes or DeleteIndexes returns an error no pair of the
\* call has been applied: every Lookup answers as before the call.
\* (ret records the last call's result and Compact is the one step that
\* leaves it alone, so a step that ends with a failed call's result and is
\* not a compaction is that failed call.)
C10_FailureAtomic ==
    [][(/\ ret'.op \in {"MergeIndexes", "DeleteIndexes"}
        /\ ret'.err # "nil"
        /\ ~Compact)
          => \A mh \in Mhs : lookup(db', mh) = lookup(db, mh)]_vars

\* C10 witness: a call failed on a store that holds data.
C10_Witness ==
    /\ ret.op \in {"MergeIndexes", "DeleteIndexes"}
    /\ ret.err # "nil"
    /\ \E mh \in Mhs : Len(lookup(db, mh).val) >= 1

RECURSIVE Register(_, _)
\* the last-writer-wins register: the em of the last put of hvk that no
\* delete of hvk follows, or Nil
Register(h, hvk) ==
    IF Len(h) = 0 THEN Nil
    ELSE LET last == h[Len(h)] IN
         IF last[2] # hvk THEN Register(SubSeq(h, 1, Len(h) - 1), hvk)
         ELSE IF last[1] = "put" THEN last[3]
         ELSE Nil

\* C11: GetMetadata(hvk) returns the em of the most recent PutMetadata(hvk,
\* em) that no DeleteMetadata(hvk) followed, and nil with a nil error
\* otherwise; DeleteMetadata of an absent hvk returns no error.
C11_MetadataRegister ==
    /\ [](\A hvk \in HVKs :
            getMetadata(db, hvk) = [err |-> "nil", val |-> Register(mhist, hvk)])
    /\ [][\A hvk \in HVKs :
            /\ (ret'.op = "GetMetadata" /\ GetMetadata(hvk) /\ ~closed)
                  => (ret'.err = "nil" /\ ret'.val = Register(mhist, hvk))
            /\ (ret'.op = "DeleteMetadata" /\ DeleteMetadata(hvk) /\ ~closed
                   /\ Register(mhist, hvk) = Nil)
                  => (ret'.err = "nil" /\ getMetadata(db', hvk).val = Nil)]_vars

\* C11 witness: a put, a delete and a second put of one hvk have returned,
\* the two puts with different values, and GetMetadata has answered.
C11_Witness ==
    /\ ret.op = "GetMetadata" /\ ret.err = "nil" /\ ret.val = EmB
    /\ \E i, j, k \in 1..Len(mhist) :
          /\ i < j /\ j < k
          /\ mhist[i] = <<"put", HvkA, EmA>>
          /\ mhist[j] = <<"delete", HvkA, Nil>>
          /\ mhist[k] = <<"put", HvkA, EmB>>

\* MergeIndexes and DeleteIndexes run alone on database d: the database they
\* leave
mergeIndexes(d, indexes) ==
    LET r == mergeLoop(sortIndexes(indexes), <<>>) IN
    IF r.err # "nil" THEN d ELSE Commit(d, r.batch)

deleteIndexes(d, indexes) ==
    LET r == deleteLoop(d, sortIndexes(indexes), <<>>) IN
    IF r.err # "nil" THEN d ELSE Commit(d, r.batch)

\* what the backend may have made of database d on its own
backendMoves(d) == {d, flushed(d), compacted(d), compacted(flushed(d))}

\* the answers Lookup(mh) can give after op1 and then op2 have run from
\* database d one after the other, the backend flushing and compacting as
\* it likes
serialLookups(d, op1(_), op2(_), mh) ==
    {lookup(d3, mh) : d3 \in UNION {backendMoves(op2(d2)) :
                           d2 \in UNION {backendMoves(op1(d1)) : d1 \in backendMoves(d)}}}

\* goroutines p and q have made the only two calls, a DeleteIndexes and a
\* MergeIndexes of the pair (MhFish, e), and both have returned nil
DeleteAndMergeReturned(p, q, e) ==
    /\ p # q
    /\ \A o \in Procs \ {p, q} : calls[o].pc = "idle"
    /\ calls[p].pc = "done" /\ calls[p].err = "nil"
    /\ calls[q].pc = "done" /\ calls[q].err = "nil"
    /\ calls[p].op = "delete" /\ calls[p].all = <<Index(MhFish, e)>>
    /\ calls[q].op = "merge" /\ calls[q].all = <<Index(MhFish, e)>>

\* C12: after a DeleteIndexes and a MergeIndexes of the same pair (mh, e)
\* that ran concurrently have both returned, Lookup(mh) is what one of the
\* two serial orders gives from the database the calls began on: e is there
\* iff the merge was committed after the delete's write (or the delete found
\* nothing to write), the other EVKs are as they were.
C12_DeleteMergeSerial ==
    \A p, q \in Procs : \A e \in {EvkA, EvkB} :
        DeleteAndMergeReturned(p, q, e)
        => LET pair == <<Index(MhFish, e)>>
               last == hist[MhFish][Len(hist[MhFish])]
               merge(d) == mergeIndexes(d, pair)
               delete(d) == deleteIndexes(d, pair)
           IN /\ lookup(db, MhFish) \in serialLookups(snap, delete, merge, MhFish)
                                        \cup serialLookups(snap, merge, delete, MhFish)
              /\ (e \in Range(lookup(db, MhFish).val))
                    <=> (last = <<"merge", e>> \/ calls[p].batch = <<>>)

\* the same with the lists compared as sets
DeleteMergeAsSets ==
    \A p, q \in Procs : \A e \in {EvkA, EvkB} :
        DeleteAndMergeReturned(p, q, e)
        => LET pair == <<Index(MhFish, e)>>
               last == hist[MhFish][Len(hist[MhFish])]
               was == Range(lookup(snap, MhFish).val)
               now == Range(lookup(db, MhFish).val)
           IN /\ lookup(db, MhFish).err = "nil"
              /\ now \ {e} = was \ {e}
              /\ (e \in now) <=> (last = <<"merge", e>> \/ calls[p].batch = <<>>)

Count(s, x) == Cardinality({i \in 1..Len(s) : s[i] = x})

\* C13: after concurrent MergeIndexes calls under one multihash have all
\* returned, Lookup(mh) holds every merged EVK exactly once, whichever way
\* the calls and the backend's flushes and compactions interleaved.
C13_NoLostMerge ==
    (AllDone /\ \A p \in Procs : calls[p].err = "nil")
    => LET r == lookup(db, MhFish) IN
       /\ r.err = "nil"
       /\ \A p \in Procs : Count(r.val, calls[p].all[1].Value) = 1
       /\ \A e \in Range(Evks(hist[MhFish])) : Count(r.val, e) = 1

\* C13 witness: two goroutines have merged different EVKs on top of a third
\* one, with a flush between the commits.
C13_Witness ==
    /\ AllDone /\ \A p \in Procs : calls[p].err = "nil"
    /\ calls[1].all[1].Value # calls[2].all[1].Value
    /\ Len(hist[MhFish]) >= 3
    /\ Distinct(Evks(hist[MhFish]))
    /\ Len(db[multihashKey(MhFish)].sst) >= 1
    /\ Len(db[multihashKey(MhFish)].mem) >= 1

\* the entries stored at key k, oldest first
Stored(k) == db[k].sst \o db[k].mem

\* C14: no multihash key is ever stored with an empty value-keys value: a
\* key is absent or maps to at least one EVK (DeleteIndexes deletes the key
\* when it removes the last EVK, and a merger with no EVKs tells the backend
\* to delete).
C14_NoEmptyValue ==
    /\ \A mh \in Mhs :
          LET k == multihashKey(mh)
              got == Get(db, k)
          IN /\ \A i \in 1..Len(Stored(k)) :
                   Stored(k)[i].kind # "DEL" => Len(Stored(k)[i].value) > 0
             /\ got.err = "nil" => Len(unmarshalEncryptedIndexKeys(got.value).evks) >= 1
    /\ DeletableFinish(Merge(multihashKey(MhFish), Nil)).delete

\* C14 witness: the last EVK of a multihash that held two has been deleted
\* and the key is gone.
C14_Witness ==
    LET h == hist[MhFish] IN
    /\ Len(h) = 4
    /\ h[1][1] = "merge" /\ h[2][1] = "merge" /\ h[1][2] # h[2][2]
    /\ h[3] = <<"delete", h[1][2]>> /\ h[4] = <<"delete", h[2][2]>>
    /\ ret.op = "DeleteIndexes" /\ ret.err = "nil"
    /\ Get(db, multihashKey(MhFish)).err = "ErrNotFound"
    /\ Len(Stored(multihashKey(MhFish))) >= 1

\* C15: whatever MergeIndexes and DeleteIndexes calls were made and however
\* the backend folded the operands, at read time, in a flush or in a
\* compaction, the list Lookup(mh) returns holds no EVK twice.
C15_NoDuplicates ==
    \A mh \in Mhs : Distinct(lookup(db, mh).val)

\* C15 witness: an EVK was merged more than once, operands sit on both sides
\* of a flush, and Lookup has returned two or more EVKs.
C15_Witness ==
    /\ ret.op = "Lookup" /\ ret.err = "nil" /\ Len(ret.val) >= 2
    /\ ret.val = lookup(db, MhFish).val
    /\ \E i, j \in 1..Len(hist[MhFish]) :
          i < j /\ hist[MhFish][i] = hist[MhFish][j] /\ hist[MhFish][i][1] = "merge"
    /\ Len(db[multihashKey(MhFish)].sst) >= 1
    /\ Len(db[multihashKey(MhFish)].mem) >= 1

\* C16: the index and the metadata key spaces are disjoint: PutMetadata and
\* DeleteMetadata change no Lookup result, MergeIndexes and DeleteIndexes
\* change no GetMetadata result, and a multihash key and a hashed value key's
\* key differ in their first byte.
C16_DisjointKeySpaces ==
    /\ [](\A mh \in Mhs, hvk \in HVKs : multihashKey(mh)[1] # hashedValueKeyKey(hvk)[1])
    /\ [][/\ (ret'.op \in {"PutMetadata", "DeleteMetadata"} /\ ~Compact)
              => \A mh \in Mhs : lookup(db', mh) = lookup(db, mh)
          /\ (ret'.op \in {"MergeIndexes", "DeleteIndexes"} /\ ~Compact)
              => \A hvk \in HVKs : getMetadata(db', hvk) = getMetadata(db, hvk)]_vars

\* C16 witness: metadata was written for the hashed value key whose digest
\* has the bytes of a multihash that holds a value key.
C16_Witness ==
    /\ ret.op = "PutMetadata" /\ ret.err = "nil"
    /\ mhist = <<<<"put", HvkA, EmA>>>>
    /\ Len(lookup(db, MhDigest).val) = 1
    /\ Len(db[multihashKey(MhDigest)].sst) + Len(db[multihashKey(MhDigest)].mem) >= 1
    /\ getMetadata(db, HvkA).val = EmA

\* C17: Lookup of a valid multihash that has no stored value, because it was
\* never merged or because its EVKs were all deleted, returns an empty
\* result and a nil error and leaves the store as it was.
C17_AbsentIsEmpty ==
    /\ [](hist[MhFish] = <<>> => Get(db, multihashKey(MhFish)).err = "ErrNotFound")
    /\ [][(/\ ret'.op = "Lookup"
            /\ Lookup(MhFish)
            /\ Get(db, multihashKey(MhFish)).err = "ErrNotFound")
           => (ret'.err = "nil" /\ ret'.val = Nil /\ db' = db)]_vars

\* C17 witness: Lookup has answered on a multihash whose two EVKs were
\* deleted one after the other, the deletes still lying in the backend.
C17_Witness ==
    LET h == hist[MhFish] IN
    /\ ret = [op |-> "Lookup", err |-> "nil", val |-> Nil]
    /\ Len(h) = 4
    /\ h[1][1] = "merge" /\ h[2][1] = "merge" /\ h[1][2] # h[2][2]
    /\ h[3] = <<"delete", h[2][2]>> /\ h[4] = <<"delete", h[1][2]>>
    /\ Len(Stored(multihashKey(MhFish))) >= 1
    /\ Get(db, multihashKey(MhFish)).err = "ErrNotFound"

\* C18: what the calls that returned before Close had written is there after
\* the store is closed and opened again on the same path: Lookup and
\* GetMetadata answer as they did right before Close.
C18_Persistence ==
    [][((Close /\ ~closed) \/ NewPebbleDHStore)
       => /\ \A mh \in Mhs : lookup(db', mh) = lookup(db, mh)
          /\ \A hvk \in HVKs : getMetadata(db', hvk) = getMetadata(db, hvk)]_vars

\* the same with the Lookup results compared as sets
PersistenceAsSets ==
    [][((Close /\ ~closed) \/ NewPebbleDHStore)
       => /\ \A mh \in Mhs : /\ lookup(db', mh).err = lookup(db, mh).err
                              /\ Range(lookup(db', mh).val) = Range(lookup(db, mh).val)
          /\ \A hvk \in HVKs : getMetadata(db', hvk) = getMetadata(db, hvk)]_vars

\* the calls of the store other than Close
StoreCalls ==
    {"MergeIndexes", "DeleteIndexes", "PutMetadata", "GetMetadata", "DeleteMetadata", "Lookup"}

\* C19: every MergeIndexes, DeleteIndexes, PutMetadata, GetMetadata,
\* DeleteMetadata and Lookup call made after Close has returned returns a
\* closed-store error, without reading or writing the backend.
C19_ClosedFailsFast ==
    [][(closed /\ closed' /\ ret'.op \in StoreCalls)
       => (ret'.err = "ErrClosed" /\ db' = db)]_vars

\* C20: a call that began before Close never reaches the backend after the
\* backend was closed: Close waits for the calls in flight.  (Every call of
\* SpecConc begins on the open store.)
C20_CloseWaitsForCalls ==
    \A p \in Procs : calls[p].err # PanicClosed

\* C21: in every state, MergeIndexes called with an encrypted value key of
\* more than 100 KB and PutMetadata called with metadata of more than 100 KB
\* can only return an error and leave the backend as it was, and neither
\* fails on a payload of up to 100 KB.
C21_SizeLimits ==
    /\ \A evk \in SizeEVKs :
          IF Len(evk) > maxValueBytes
          THEN ~ENABLED (/\ MergeIndexes(<<Index(MhFish, evk)>>)
                         /\ ~(ret'.err # "nil" /\ db' = db))
          ELSE ~ENABLED (MergeIndexes(<<Index(MhFish, evk)>>) /\ ret'.err # "nil")
    /\ \A em \in SizeEMs :
          IF Len(em) > maxValueBytes
          THEN ~ENABLED (/\ PutMetadata(HvkA, em)
                         /\ ~(ret'.err # "nil" /\ db' = db))
          ELSE ~ENABLED (PutMetadata(HvkA, em) /\ ret'.err # "nil")

\* over the steps taken, the payloads of up to 100 KB are stored
SizeLimitsUpToLimit ==
    [][/\ \A evk \in SizeEVKs :
            (ret'.op = "MergeIndexes" /\ MergeIndexes(<<Index(MhFish, evk)>>)
                /\ Len(evk) <= maxValueBytes)
            => (ret'.err = "nil" /\ exists(lookup(db', MhFish).val, evk))
       /\ \A em \in SizeEMs :
            (ret'.op = "PutMetadata" /\ PutMetadata(HvkA, em) /\ Len(em) <= maxValueBytes)
            => (ret'.err = "nil" /\ getMetadata(db', HvkA).val = em)]_vars

\* the keys the store has written an entry under that the backend still
\* holds
WrittenKeys == {k \in DOMAIN db : Len(db[k].sst) + Len(db[k].mem) > 0}

\* the key k is the byte tag followed by a multihash that was merged or
\* deleted
IsMultihashKey(k, tag) ==
    /\ k[1] = tag
    /\ \E mh \in Mhs : hist[mh] # <<>> /\ Tail(k) = mh

\* the key k is the byte tag followed by the 32-byte digest of a hashed
\* value key that was put or deleted
IsHashedValueKeyKey(k, tag) ==
    /\ k[1] = tag
    /\ Len(k) = 33
    /\ \E i \in 1..Len(mhist) : Tail(k) = blake3Sum(mhist[i][2])

SectionEnds(xs) == {Len(marshalEncryptedIndexKeys(SubSeq(xs, 1, j))) : j \in 0..Len(xs)}

\* C23: decoding the framing of any sequence of byte slices gives the
\* slices back in order, and decoding a buffer that ends inside a section
\* gives an error and no slices.
C23_FramingRoundTrip ==
    codec.pc = "done"
    => /\ ~codec.cut => codec.out = [err |-> "nil", evks |-> codec.xs]
       /\ (codec.cut /\ Len(codec.buf) \notin SectionEnds(codec.xs))
             => (codec.out.err = "ErrUnexpectedEOF" /\ codec.out.evks = Nil)
       /\ (codec.cut /\ Len(codec.buf) \in SectionEnds(codec.xs))
             => \E j \in 0..Len(codec.xs) :
                   codec.out = [err |-> "nil", evks |-> SubSeq(codec.xs, 1, j)]

\* three slices, an empty one and the long one among them and two of them
\* equal, were framed and decoded whole
C23_Witness ==
    /\ codec.pc = "done"
    /\ ~codec.cut
    /\ Len(codec.xs) = 3
    /\ <<>> \in Range(codec.xs)
    /\ SliceLong \in Range(codec.xs)
    /\ ~Distinct(codec.xs)
    /\ codec.out.evks = codec.xs

\* a buffer cut inside its second section was decoded
C23_WitnessCut ==
    /\ codec.pc = "done"
    /\ codec.cut
    /\ Len(codec.buf) > Len(marshalEncryptedIndexKeys(SubSeq(codec.xs, 1, 1)))
    /\ Len(codec.buf) \notin SectionEnds(codec.xs)
    /\ codec.out.err = "ErrUnexpectedEOF"

RECURSIVE olderAll(_, _, _)
\* MergeOlder on the operands below position i + 1, going down
olderAll(v, operands, i) ==
    IF i = 0 THEN v ELSE olderAll(MergeOlder(v, operands[i]), operands, i - 1)

RECURSIVE newerAll(_, _, _)
\* MergeNewer on the operands from position i, going up
newerAll(v, operands, i) ==
    IF i > Len(operands) THEN v
    ELSE newerAll(MergeNewer(v, operands[i]), operands, i + 1)

\* Merge on the newest operand, then MergeOlder for each older one
FoldNewestFirst(operands) ==
    olderAll(Merge(HarnessKey, operands[Len(operands)]), operands, Len(operands) - 1)

\* Merge on the oldest operand, then MergeNewer for each newer one
FoldOldestFirst(operands) == newerAll(Merge(HarnessKey, operands[1]), operands, 2)

\* C24: for distinct single-EVK operands in chronological order, the fold
\* newest first and the fold oldest first make Finish emit the same bytes,
\* and so does a merger of the harness that has covered every operand in
\* one direction.
C24_DirectionIndependent ==
    (trav.passes = 0 /\ Len(ops) >= 1 /\ Distinct(chron))
    => /\ Finish(FoldNewestFirst(ops)) = Finish(FoldOldestFirst(ops))
       /\ (vm # NoMerger /\ vm.lo = 1 /\ vm.hi = Len(ops) /\ ~(trav.older /\ trav.newer))
             => Finish(vm) = Finish(FoldOldestFirst(ops))

\* a merger that began at the newest of three distinct operands has taken
\* the two older ones through MergeOlder
C24_Witness ==
    /\ trav.passes = 0
    /\ Len(ops) = 3 /\ Distinct(chron)
    /\ vm # NoMerger /\ vm.lo = 1 /\ vm.hi = 3
    /\ trav.older /\ ~trav.newer
    /\ Finish(vm) = marshalEncryptedIndexKeys(chron)

\* C25: a merger that received both MergeOlder and MergeNewer operands after
\* its initial value, all distinct and of one EVK each, has reverse set and
\* Finish emits the EVKs it covers oldest first.
C25_MixedTraversal ==
    (vm # NoMerger /\ trav.passes = 0 /\ Distinct(chron) /\ trav.older /\ trav.newer)
    => /\ vm.reverse
       /\ Finish(vm) = marshalEncryptedIndexKeys(SubSeq(chron, vm.lo, vm.hi))

\* reverse, once set by MergeOlder, stays set while the merger lives
ReverseNeverCleared ==
    [][(vm # NoMerger /\ vm.reverse /\ vm' # NoMerger) => vm'.reverse]_vars

\* C26: within one MergeIndexes call on an absent key, the pairs of one
\* multihash are applied in the order the caller listed them, whatever the
\* length of the batch and whatever other multihashes it holds: the sort
\* keeps pairs of equal keys in order, and Lookup returns the value keys as
\* listed.
C26_ListedOrder ==
    [][\A p \in 1..(maxInsertion + 1) :
          (Committed = 0 /\ MergeIndexes(LongBatch(p)) /\ ret'.err = "nil")
          => /\ SelectSeq(sortIndexes(LongBatch(p)), LAMBDA index : index.Key = MhFish)
                   = FishRun
             /\ lookup(db', MhFish).val = [i \in 1..maxInsertion |-> FishRun[i].Value]]_vars

\* Up to maxInsertion pairs the sort keeps the listed order.
ShortBatchesKeepOrder ==
    \A n \in 1..maxInsertion, p \in 1..(maxInsertion + 1) :
       LET batch == SubSeq(LongBatch(p), 1, n)
       IN SelectSeq(sortIndexes(batch), LAMBDA index : index.Key = MhFish)
             = SelectSeq(batch, LAMBDA index : index.Key = MhFish)

\* (mh, e) is a pair DeleteIndexes accepts and finds nothing to remove for:
\* the key of mh is absent, or its stored list decodes and does not hold e
NonMatching(d, index) ==
    LET holds(dec) == dec.err = "nil" /\ index.Value \notin Range(dec.evks)
        found(got) == \/ got.err = "ErrNotFound"
                      \/ got.err = "nil" /\ holds(unmarshalEncryptedIndexKeys(got.value))
    IN /\ checkMultihash(index.Key) = "nil"
       /\ found(Get(d, multihashKey(index.Key)))

\* C27: DeleteIndexes is a no-op for non-matching pairs.  For a pair (mh, e)
\* with a valid multihash whose key is absent, or whose stored list does not
\* contain e, the call enqueues no backend write for that key and returns no
\* error for it; a call all of whose pairs are such returns nil and leaves
\* the backend, and so every Lookup, as it was.
C27_DeleteNoOp ==
    /\ [](\A index \in FishPairs : NonMatching(db, index) =>
             \A batch \in {<<>>, <<[kind |-> "DEL", key |-> multihashKey(MhCrab), value |-> Nil]>>} :
                deleteOne(db, index, batch) = [err |-> "nil", batch |-> batch])
    /\ [][(/\ ret'.op = "DeleteIndexes"
            /\ ~Compact
            /\ \A mh \in Mhs : \A i \in (Len(hist[mh]) + 1)..Len(hist'[mh]) :
                   NonMatching(db, Index(mh, hist'[mh][i][2])))
             => /\ ret'.err = "nil"
                /\ db' = db
                /\ \A mh \in Mhs : lookup(db', mh) = lookup(db, mh)]_vars

\* C27 witness: a DeleteIndexes call of one pair has returned whose value
\* key the stored list, which is not empty, did not hold: no merge before
\* the call listed it.
C27_Witness ==
    LET h == hist[MhFish] IN
    /\ ret.op = "DeleteIndexes"
    /\ ret.err = "nil"
    /\ Len(h) = 2
    /\ h[1][1] = "merge"
    /\ h[2][1] = "delete"
    /\ h[2][2] # h[1][2]
    /\ lookup(db, MhFish) = Found(<<h[1][2]>>)

RECURSIVE RunsPast(_)
\* a section of buf has a length that runs past the end of buf
RunsPast(buf) ==
    LET section(v) == /\ v.n > 0
                      /\ \/ v.x > Len(buf) - v.n
                         \/ RunsPast(SubSeq(buf, v.n + v.x + 1, Len(buf)))
    IN Len(buf) > 0 /\ section(Uvarint(buf))

\* the value stored for mh is malformed
Malformed(d, mh) ==
    LET bad(got) == got.err = "nil" /\ RunsPast(got.value)
    IN bad(Get(d, multihashKey(mh)))

C28_WitnessLookup ==
    /\ ret = [op |-> "Lookup", err |-> "ErrUnexpectedEOF", val |-> Nil]
    /\ Malformed(db, MhFish)
    /\ copyNextSection(Get(db, multihashKey(MhFish)).value).err = "nil"

\* the goroutines that hold buffer id of a pool: they have leased it and not
\* released it
Holders(what, id) ==
    {p \in Procs : scratch.run[p][what].id = id /\ scratch.run[p][what].open}

\* C29: scratch-buffer leases are exclusive.  In every interleaving a
\* pooled key or section buffer is held by at most one call at a time, a
\* buffer in a pool is held by none and is there once, no lease is released
\* twice, and no call uses a buffer it has released.
C29_ExclusiveLeases ==
    /\ scratch.bad = "none"
    /\ \A what \in {"key", "sec"} :
          /\ \A p \in Procs, q \in Procs :
                (/\ scratch.run[p][what].open
                 /\ scratch.run[q][what].open
                 /\ scratch.run[p][what].id = scratch.run[q][what].id) => p = q
          /\ \A b \in BagToSet(scratch[what]) :
                /\ Holders(what, b.id) = {}
                /\ CopiesIn(b, scratch[what]) = 1

\* C29 witness: a DeleteIndexes call holds its key buffer, has released the
\* section buffer it decoded with and is about to lease the one it
\* marshals into; another call holds a section buffer; and the section pool
\* is empty.  No section buffer outgrows the pool here, so the buffer the
\* other call holds is the one that was released.
C29_Witness ==
    \E p \in Procs, q \in Procs :
       /\ p # q
       /\ scratch.run[p].prog = <<lease("sec", ShortValue), use("key"), use("sec"),
                                  close("sec"), close("key")>>
       /\ scratch.run[p].key.open
       /\ scratch.run[q].sec.open
       /\ scratch.sec = EmptyBag
\* the requests whose store call is the one that last returned: both GET
\* paths, and a server with dhfind (answering any of its statuses) or without
HttpRequests == BOOLEAN \X ({DhfindOff} \cup DhfindStatuses)

HandlerOps == {"MergeIndexes", "DeleteIndexes", "Lookup",
               "PutMetadata", "GetMetadata", "DeleteMetadata"}
ClientErrors == {"ErrMultihashDecode", "ErrUnsupportedMulticodecCode",
                 "ErrInvalidHashedValueKey"}

\* the part of the mapping that is about failed store calls
ErrorStatus(r, status) ==
    /\ r.err \in ClientErrors => status = StatusBadRequest
    /\ r.err \notin ClientErrors \cup {"nil"} => status = StatusInternalServerError

\* C30 as stated: whenever a request has reached the store, the answer is
\* 400 for ErrMultihashDecode, ErrUnsupportedMulticodecCode and
\* ErrInvalidHashedValueKey, 500 for any other store error, 404 when Lookup
\* or GetMetadata returned no data, and 202 for a successful PUT or DELETE.
C30_HttpStatus ==
    \A req \in HttpRequests :
       LET status == ServeHTTP(ret, req[1], req[2]) IN
       ret.op \in HandlerOps =>
          /\ ErrorStatus(ret, status)
          /\ (ret.err = "nil" /\ ret.op \in {"Lookup", "GetMetadata"}
                /\ Len(ret.val) = 0) => status = StatusNotFound
          /\ (ret.err = "nil" /\ ret.op \in {"MergeIndexes", "DeleteIndexes",
                                             "PutMetadata", "DeleteMetadata"})
                => status = StatusAccepted

\* C30 as the code has it: the answer is 400 for the three client errors
\* and 500 for any other store error; 404 when GetMetadata returned no data,
\* and when Lookup returned none on the encrypted path or on a server
\* without dhfind (otherwise the request is handed on and dhfind's answer is
\* the status); 202 for a successful PUT of either kind and a successful
\* DELETE of indexes; 200 for a successful DELETE of metadata.
C30_HttpStatusOfCode ==
    \A req \in HttpRequests :
       LET status == ServeHTTP(ret, req[1], req[2]) IN
       ret.op \in HandlerOps =>
          /\ ErrorStatus(ret, status)
          /\ (ret.err = "nil" /\ ret.op = "GetMetadata" /\ Len(ret.val) = 0)
                => status = StatusNotFound
          /\ (ret.err = "nil" /\ ret.op = "Lookup" /\ Len(ret.val) = 0)
                => status = IF req[1] \/ req[2] = DhfindOff THEN StatusNotFound
                            ELSE req[2]
          /\ (ret.err = "nil" /\ ret.op \in {"MergeIndexes", "DeleteIndexes",
                                             "PutMetadata"})
                => status = StatusAccepted
          /\ (ret.err = "nil" /\ ret.op = "DeleteMetadata") => status = StatusOK

\* a delete request answered 500: the value stored for its multihash no
\* longer decodes
C30_Witness ==
    /\ ret = [op |-> "DeleteIndexes", err |-> "ErrUnexpectedEOF", val |-> Nil]
    /\ Malformed(db, MhFish)
    /\ \A req \in HttpRequests :
          ServeHTTP(ret, req[1], req[2]) = StatusInternalServerError

Returned(p, op, index) ==
    /\ calls[p].pc = "done" /\ calls[p].err = "nil"
    /\ calls[p].op = op /\ calls[p].all = <<index>>

\* C32: when DeleteIndexes of (mh, a) and MergeIndexes of (mh, b), a # b,
\* have run concurrently and both returned nil, Lookup(mh) holds b.
C32_MergeSurvivesDelete ==
    \A p \in Procs, q \in Procs : \A a \in ConcPairs, b \in ConcPairs :
       (/\ p # q /\ a # b /\ ~closed
        /\ Returned(p, "delete", a) /\ Returned(q, "merge", b))
          => exists(lookup(db, b.Key).val, b.Value)

\* C33: when Lookup(mh) held a and b, a # b, as DeleteIndexes of (mh, a) and
\* DeleteIndexes of (mh, b) began to run concurrently, and both returned
\* nil, Lookup(mh) holds neither a nor b.
C33_BothDeletesTakeEffect ==
    \A p \in Procs, q \in Procs : \A a \in ConcPairs, b \in ConcPairs :
       (/\ p # q /\ a # b /\ a.Key = b.Key /\ ~closed
        /\ exists(lookup(snap, a.Key).val, a.Value)
        /\ exists(lookup(snap, a.Key).val, b.Value)
        /\ Returned(p, "delete", a) /\ Returned(q, "delete", b))
          => /\ ~exists(lookup(db, a.Key).val, a.Value)
             /\ ~exists(lookup(db, a.Key).val, b.Value)

\* C34: over the Close calls on one store the backend is flushed once and
\* closed once, and every call returns nil (no backend call of the model
\* fails): the first after closing the backend, the later ones at once.
C34_CloseOnce ==
    /\ Cardinality(Invoked("Flush")) <= 1
    /\ Cardinality(Invoked("Close")) <= 1
    /\ \A p \in Procs :
          (calls[p].op = "close" /\ calls[p].pc = "done")
             => /\ calls[p].err = "nil"
                /\ Cardinality(Invoked("Flush")) = 1
                /\ Cardinality(Invoked("Close")) = 1

\* the newest operation committed for the value key v of mh is a delete, and
\* Lookup(mh) does not return v
Gone(h, d, mh, v) ==
    /\ \E i \in 1..Len(h[mh]) :
          /\ h[mh][i] = <<"delete", v>>
          /\ \A j \in (i + 1)..Len(h[mh]) : h[mh][j][2] # v
    /\ ~exists(lookup(d, mh).val, v)

\* C35: a DeleteIndexes of the one pair (mh, v) that returns nil leaves
\* Lookup(mh) without v, and v stays away through every later step (merges
\* of other value keys, deletes, flushes, compactions) that is not a
\* MergeIndexes of (mh, v) itself.
C35_NoResurrection ==
    [][\A v \in EVKs :
          /\ (/\ ret'.op = "DeleteIndexes" /\ ret'.err = "nil"
              /\ hist'[MhFish] = Append(hist[MhFish], <<"delete", v>>))
                => ~exists(lookup(db', MhFish).val, v)
          /\ (/\ Gone(hist, db, MhFish, v)
              /\ \A i \in (Len(hist[MhFish]) + 1)..Len(hist'[MhFish]) :
                    hist'[MhFish][i] # <<"merge", v>>)
                => Gone(hist', db', MhFish, v)]_vars

\* v was merged, deleted, and another value key merged after it; the table
\* that came of it holds the other value key alone
C35_Witness ==
    /\ hist[MhFish] = <<<<"merge", EvkA>>, <<"merge", EvkC>>, <<"delete", EvkA>>,
                        <<"merge", EvkB>>>>
    /\ db[multihashKey(MhFish)].mem = <<>>
    /\ Len(db[multihashKey(MhFish)].sst) = 1
    /\ Gone(hist, db, MhFish, EvkA)
    /\ exists(lookup(db, MhFish).val, EvkB)

\* the entries the backend holds at key k, in its tables and its memtable
Entries(k) == db[k].sst \o db[k].mem

\* C36: the backend holds merge operands at multihash keys only, where the
\* merger is the value-keys merger, and at a hashed value key's key nothing
\* but sets and deletes: the default merger is never applied to metadata.
C36_MergesConfined ==
    \A k \in DBKeys : \A i \in 1..Len(Entries(k)) :
       /\ Entries(k)[i].kind = "MERGE"
             => /\ k[1] = multihashKeyPrefix
                /\ newValueKeysMerger(k) = "valueKeysValueMerger"
       /\ k[1] = hashedValueKeyKeyPrefix => Entries(k)[i].kind \in {"SET", "DEL"}

\* a multihash and a hashed value key with the same digest: a merge operand
\* under the one key, a set under the other
C36_Witness ==
    /\ \E i \in 1..Len(Entries(multihashKey(MhDigest))) :
          Entries(multihashKey(MhDigest))[i].kind = "MERGE"
    /\ \E i \in 1..Len(Entries(hashedValueKeyKey(HvkA))) :
          Entries(hashedValueKeyKey(HvkA))[i].kind = "SET"

\* C37: a dhfind request that has begun ends with the handler answered and
\* the FindAsync goroutine returned; on the way the goroutine's send on
\* errChan finds the channel empty, and the answer is the error FindAsync
\* returned, 404 when it sent no result, the finalized response otherwise.
C37_DhfindTerminates ==
    /\ [](find.f = "returns" => Len(find.errChan) = 0)
    /\ [](find.h = "done" =>
             /\ find.f = "returned" /\ find.err = find.ferr
             /\ find.answer = IF find.ferr # "nil" THEN "handleError"
                              ELSE IF find.sent = 0 THEN "StatusNotFound"
                              ELSE "Close")
    /\ (find.h = "range") ~> (find.h = "done" /\ find.f = "returned")

\* every write to the client failed, the handler went on receiving, and the
\* request ended with FindAsync's error
C37_Witness ==
    /\ find.h = "done" /\ find.f = "returned"
    /\ find.sent = MaxResults /\ find.wrote = 0
    /\ find.answer = "handleError"

====
